---- MODULE Spec2Model ----
(***************************************************************************)
(* Model of src/parsing_tester.py: Grammar, FirstFollow, LL1Parser,        *)
(* SLR1Parser and LR1Parser (modes lr1 and lalr1).                         *)
(*                                                                         *)
(* Grammars are the values a Grammar object holds (terminals,              *)
(* nonterminals, start_symbol, productions in dict order, precedence,      *)
(* assoc), built by Grammar.from_file from a grammar file.  In the files    *)
(* drawn here every right-hand side is either the empty alternative or a   *)
(* sequence of symbols, and EPS is no grammar symbol.  END is declared a   *)
(* terminal by one grammar only (G_end).                                   *)
(*                                                                         *)
(* Python iterates a set of strings or tuples in an order that depends on  *)
(* the hash seed and on how the set was filled.  The variable `order`      *)
(* picks one of two iteration orders for every such loop (Iter); it is     *)
(* chosen at the start and again for the merged LALR(1) states.            *)
(***************************************************************************)
EXTENDS Integers, Sequences, FiniteSets, TLC

VARIABLES
    gfile,          \* the grammar file handed to Grammar.from_file, NoFile once g is given
    g,              \* the Grammar object
    order,          \* the iteration order of the Python sets being iterated
    method,         \* main's --method: "both" (LL(1), SLR(1)) or "all" (SLR(1), LALR(1), LR(1))
    ref,            \* auxiliary: FIRST/FOLLOW of g by derivation (RefSets)
    pc,             \* position in the build / parse pipeline
    first,          \* FirstFollow.first
    follow,         \* FirstFollow.follow
    computes,       \* number of completed FirstFollow.compute() calls
    table,          \* LL1Parser.table, keyed by <<A, a>>
    ll1_conflicts,  \* LL1Parser.conflicts
    automaton,      \* the automaton under construction: states, transitions, worklist
    parser,         \* the built SLR1Parser / LR1Parser objects, by kind
    tokens,         \* the token sequence handed to parse
    run,            \* the locals of the active parse call
    results,        \* the ParseResult of each finished parse, by engine
    earlier         \* the tokens and results of the previous rounds of parse calls

EPS == "eps"
END == "$"

----------------------------------------------------------------------------
(* Bounds *)

\* alternatives per nonterminal in the enumerated grammar family
MaxAlts == 2
\* calls of FirstFollow.compute() on one object
MaxComputes == 2
\* length of the enumerated token sequences
MaxLen == 3

\* conflicts logged for the one cell that _add_action is called on
MaxConflicts == 2
\* productions a parse records before its loop is followed no further
MaxSteps == 16
\* rounds of parse calls that follow the first one on the same parsers
MaxAgain == 2

\* (p or -1): the level an undeclared precedence compares as, line 517
NoPrec == -1

----------------------------------------------------------------------------
(* Generic helpers *)

RECURSIVE SetToSeq(_)
SetToSeq(S) ==
    IF S = {} THEN <<>>
    ELSE LET x == CHOOSE y \in S : TRUE IN <<x>> \o SetToSeq(S \ {x})

Reverse(s) == [i \in 1..Len(s) |-> s[Len(s) + 1 - i]]

\* `for x in S` over a Python set: one of two orders, fixed for the run
Iter(S) == IF order = "fwd" THEN SetToSeq(S) ELSE Reverse(SetToSeq(S))

Orders == {"fwd", "rev"}

\* dict.get(key) is not None
Has(d, k) == k \in DOMAIN d

\* d[k] = v on a dict
Put(d, k, v) == [x \in DOMAIN d \cup {k} |-> IF x = k THEN v ELSE d[x]]

EmptyDict == [x \in {} |-> {}]

\* acc = Op(acc, x) for x in seq, in order; each value is computed before
\* the next element is visited
RECURSIVE FoldFrom(_, _, _, _)
FoldFrom(Op(_, _), acc, seq, k) ==
    IF k > Len(seq) THEN acc
    ELSE LET nxt == Op(acc, seq[k]) IN
         IF nxt = acc THEN FoldFrom(Op, acc, seq, k + 1)
         ELSE FoldFrom(Op, nxt, seq, k + 1)

Fold(Op(_, _), acc, seq) == FoldFrom(Op, acc, seq, 1)

\* list.index(x) as a 0-based position, Len(seq) when absent
\* an index search that never finds the element
IndexFromNotFound(seq, x, k) == Len(seq)

RECURSIVE IndexFrom(_, _, _)
IndexFrom(seq, x, k) ==
    IF k > Len(seq) THEN Len(seq)
    ELSE IF seq[k] = x THEN k - 1 ELSE IndexFrom(seq, x, k + 1)

----------------------------------------------------------------------------
(* Grammar *)

Alts(A, alts) == [lhs |-> A, alts |-> alts]

\* Grammar.__init__
EmptyGrammar ==
    [terminals |-> {}, nonterminals |-> {}, start_symbol |-> "",
     productions |-> <<>>, precedence |-> EmptyDict, assoc |-> EmptyDict]

\* a grammar file: the %Terminals and %NonTerminals payloads, %Start, the
\* %Left / %Right / %NonAssoc lines in order, then the %Productions lines
File(terms, nts, start, groups, lines) ==
    [terminals |-> terms, nonterminals |-> nts, start |-> start,
     groups |-> groups, lines |-> lines]

Group(assoc, toks) == [assoc |-> assoc, tokens |-> toks]

\* productions[lhs].append(alt) for every alt, on a defaultdict(list)
AppendAlts(prods, A, alts) ==
    IF \E k \in 1..Len(prods) : prods[k].lhs = A
    THEN [k \in 1..Len(prods) |->
            IF prods[k].lhs = A THEN Alts(A, prods[k].alts \o alts) ELSE prods[k]]
    ELSE Append(prods, Alts(A, alts))

\* Grammar.from_file, lines 107-122: the level-th precedence line
ReadGroup(gr, level, grp) ==
    [gr EXCEPT
        !.terminals = @ \cup grp.tokens,
        !.precedence = [t \in DOMAIN @ \cup grp.tokens |->
                            IF t \in grp.tokens THEN level ELSE @[t]],
        !.assoc = [t \in DOMAIN @ \cup grp.tokens |->
                            IF t \in grp.tokens THEN grp.assoc ELSE @[t]]]

\* Grammar.from_file, lines 126-145: one line A -> alt | alt | ...; a symbol
\* of the line that is no nonterminal yet becomes a terminal
ReadLine(gr, line) ==
    LET nts == gr.nonterminals \cup {line.lhs}
        syms == UNION { { line.alts[i][n] : n \in 1..Len(line.alts[i]) } :
                        i \in 1..Len(line.alts) }
    IN  [gr EXCEPT
            !.nonterminals = nts,
            !.terminals = @ \cup { sym \in syms : sym \notin nts /\ sym # EPS },
            !.productions = AppendAlts(@, line.lhs, line.alts)]

\* Grammar.from_file
from_file(file) ==
    LET declared == [EmptyGrammar EXCEPT !.terminals = file.terminals,
                                         !.nonterminals = file.nonterminals,
                                         !.start_symbol = file.start]
        levelled == [n \in 1..Len(file.groups) |-> <<n, file.groups[n]>>]
        grouped == Fold(LAMBDA gr, e : ReadGroup(gr, e[1], e[2]), declared, levelled)
    IN  Fold(ReadLine, grouped, file.lines)

\* for A, alts in productions.items(): for alpha in alts  -- as one sequence
RECURSIVE FlatFrom(_, _)
FlatFrom(prods, k) ==
    IF k > Len(prods) THEN <<>>
    ELSE [i \in 1..Len(prods[k].alts) |-> <<prods[k].lhs, prods[k].alts[i]>>]
         \o FlatFrom(prods, k + 1)

ProdList(gr) == FlatFrom(gr.productions, 1)

\* Scenario 1: E -> T E'; E' -> + T E' | eps; T -> F T'; T' -> * F T' | eps;
\*             F -> ( E ) | id, all symbols declared
G_expr ==
    from_file(File({"id", "+", "*", "(", ")"}, {"E", "E'", "T", "T'", "F"}, "E",
        <<>>,
        << Alts("E",  << <<"T", "E'">> >>),
           Alts("E'", << <<"+", "T", "E'">>, <<EPS>> >>),
           Alts("T",  << <<"F", "T'">> >>),
           Alts("T'", << <<"*", "F", "T'">>, <<EPS>> >>),
           Alts("F",  << <<"(", "E", ")">>, <<"id">> >>) >>))

ElseProds ==
    << Alts("Stmt", << <<"if", "E", "then", "Stmt">>,
                       <<"if", "E", "then", "Stmt", "else", "Stmt">>,
                       <<"id", "=", "E">> >>),
       Alts("E", << <<"id">> >>) >>

\* Scenario 2a: dangling else, no precedence
G_else ==
    from_file(File({"if", "then", "else", "id", "="}, {"Stmt", "E"}, "Stmt",
                   <<>>, ElseProds))

\* Scenario 2b: dangling else, one precedence line holding 'else',
\* %Left, %Right or %NonAssoc
G_else_prec(assoc) ==
    from_file(File({"if", "then", "else", "id", "="}, {"Stmt", "E"}, "Stmt",
                   << Group(assoc, {"else"}) >>, ElseProds))

Assocs == {"left", "right", "nonassoc"}

\* Right-hand sides of the enumerated family over {S, A} and {a, b}
RhsPool ==
    { <<EPS>>, <<"A", "b">>, <<"A", "A">>, <<"S", "a">> }

AltLists(pool, lo) == UNION { [1..n -> pool] : n \in lo..MaxAlts }

\* every file  S -> alts_S ; A -> alts_A  with at most MaxAlts alternatives
\* drawn from the pool, with the symbols declared in %Terminals and
\* %NonTerminals or left to from_file
FilesOver(pool) ==
    { File(IF decl THEN {"a", "b"} ELSE {}, IF decl THEN {"S", "A"} ELSE {}, "S",
           <<>>,
           IF aa = <<>> THEN << Alts("S", sa) >>
           ELSE << Alts("S", sa), Alts("A", aa) >>) :
        sa \in AltLists(pool, 1), aa \in AltLists(pool, 0), decl \in BOOLEAN }

GrammarsOver(pool) == { from_file(file) : file \in FilesOver(pool) }

GenGrammars == GrammarsOver(RhsPool)

\* Right-hand sides of the family used to compare the engines: right
\* recursion through both nonterminals, and the empty string
RecPool ==
    { <<EPS>>, <<"b">>, <<"A", "b">>, <<"a", "S">> }

RecGrammars == GrammarsOver(RecPool)

\* Right-hand sides of S in the family used for the LR tables: the unit
\* productions, A after a terminal and A before one
TabPool ==
    { <<"S">>, <<"A">>, <<"a", "A">>, <<"A", "b">> }

\* Right-hand sides of A in that family
TabPoolA ==
    { <<EPS>>, <<"S">> }

\* every file  S -> alts_S ; A -> alts_A  over the two pools that declares
\* its symbols
TabFiles ==
    { File({"a", "b"}, {"S", "A"}, "S", <<>>,
           IF aa = <<>> THEN << Alts("S", sa) >>
           ELSE << Alts("S", sa), Alts("A", aa) >>) :
        sa \in AltLists(TabPool, 1), aa \in AltLists(TabPoolA, 0) }

AmbProds ==
    << Alts("E", << <<"E", "+", "E">>, <<"E", "*", "E">>, <<"id">> >>) >>

\* E -> E + E | E * E | id under the given %Left / %Right / %NonAssoc lines
G_amb(groups) ==
    from_file(File({"id", "+", "*"}, {"E"}, "E", groups, AmbProds))

\* no precedence line, one line holding '+', '*' or both, or one line each
PrecLines ==
    {<<>>}
    \cup { << Group(x, toks) >> : x \in Assocs, toks \in {{"+"}, {"*"}, {"+", "*"}} }
    \cup { << Group(x, {t[1]}), Group(y, {t[2]}) >> :
            x \in Assocs, y \in Assocs, t \in {<<"+", "*">>, <<"*", "+">>} }

AmbGrammars == { G_amb(groups) : groups \in PrecLines }

\* two pairs of contexts for A -> a and B -> a; canonical LR(1) keeps the
\* state after  b a  apart from the state after  c a , LALR(1) merges them
MergeProds ==
    << Alts("S", << <<"b", "A", "b">>, <<"b", "B", "b", "c">>,
                    <<"c", "A", "c">>, <<"c", "B", "c", "b">> >>),
       Alts("A", << <<"a">> >>),
       Alts("B", << <<"a">> >>) >>

G_merge == from_file(File({"a", "b", "c"}, {"S", "A", "B"}, "S", <<>>, MergeProds))

\* E -> E + E | E * E | id with one precedence line
LRGrammars ==
    { G_amb(<< Group(x, toks) >>) : x \in Assocs, toks \in {{"+"}, {"+", "*"}} }
    \cup { G_merge }

\* S -> a S a | b: the canonical LR(1) states inside the nesting differ from
\* the outer ones by their lookahead only, and the inner ones are re-entered
G_nest ==
    from_file(File({"a", "b"}, {"S"}, "S", <<>>,
                   << Alts("S", << <<"a", "S", "a">>, <<"b">> >>) >>))

\* S -> A A ; A -> a | eps: the closure of S -> . A A looks past a nullable A
G_pair ==
    from_file(File({"a"}, {"S", "A"}, "S", <<>>,
                   << Alts("S", << <<"A", "A">> >>),
                      Alts("A", << <<"a">>, <<EPS>> >>) >>))

\* S -> C B | c ; C -> c ; B -> B b: B derives no terminal string and
\* FIRST(B) is empty
G_dead ==
    from_file(File({"b", "c"}, {"S", "C", "B"}, "S", <<>>,
                   << Alts("S", << <<"C", "B">>, <<"c">> >>),
                      Alts("C", << <<"c">> >>),
                      Alts("B", << <<"B", "b">> >>) >>))

\* both names that __init__ tries for the augmented start are nonterminals
G_clash ==
    from_file(File({"a", "b"}, {"S", "S'", "S_S"}, "S", <<>>,
                   << Alts("S", << <<"a", "S_S">>, <<"b">> >>),
                      Alts("S'", << <<"a">> >>),
                      Alts("S_S", << <<"b", "b">> >>) >>))

\* the end marker used as a terminal of the grammar
G_end ==
    from_file(File({"a", "b", END}, {"S"}, "S", <<>>,
                   << Alts("S", << <<"a", END, "b">> >>) >>))

\* left recursion, the recursive alternative written last
G_leftrec ==
    from_file(File({"a"}, {"S"}, "S", <<>>,
                   << Alts("S", << <<"a">>, <<"S", "a">> >>) >>))

\* a unit cycle S -> S
G_cycle ==
    from_file(File({"a"}, {"S"}, "S", <<>>,
                   << Alts("S", << <<"S">>, <<"a">> >>) >>))

\* right recursion with an empty alternative
G_list ==
    from_file(File({"a", "b"}, {"S"}, "S", <<>>,
                   << Alts("S", << <<"a", "S">>, <<"b">>, <<EPS>> >>) >>))

\* the grammars whose parses are followed step by step with every input
ParseGrammars == {G_clash, G_end, G_leftrec, G_cycle, G_list, G_nest}

\* Right-hand sides of S in the files handed to from_file by Load
LoadPool == { <<"a">>, <<"S", "b">>, <<EPS>> }

\* files  S -> alts  with or without %Terminals a b, with a %NonTerminals
\* line naming none, one, two or three of S, S' and S_S, with or without
\* a %Start line
LoadFiles ==
    { File(terms, nts, start, <<>>, << Alts("S", sa) >>) :
        terms \in { {}, {"a", "b"} },
        nts \in { {}, {"S"}, {"S", "S'"}, {"S", "S'", "S_S"} },
        start \in { "", "S" },
        sa \in AltLists(LoadPool, 1) }

TabGrammars == { from_file(file) : file \in TabFiles } \cup AmbGrammars
    \cup {G_merge, G_nest, G_pair, G_dead}

----------------------------------------------------------------------------
(* FirstFollow *)

\* FirstFollow.__init__, lines 169-175
InitFirst(gr) ==
    LET syms == gr.nonterminals \cup gr.terminals IN
    [sym \in syms \cup {END} |->
        IF sym \in syms
        THEN (IF sym \in gr.terminals THEN {sym} ELSE {})
        ELSE {END}]

InitFollow(gr) == [nt \in gr.nonterminals |-> {}]

RECURSIVE first_of_seq_from(_, _, _)
first_of_seq_from(fst, seq, i) ==
    IF i > Len(seq) THEN {EPS}
    ELSE (fst[seq[i]] \ {EPS})
         \cup (IF EPS \in fst[seq[i]] THEN first_of_seq_from(fst, seq, i + 1)
               ELSE {})

\* the first symbol only: a nullable prefix is not skipped
first_of_seq_head(fst, seq) ==
    IF seq = <<>> \/ seq = <<EPS>> THEN {EPS} ELSE fst[seq[1]]

first_of_seq(fst, seq) ==
    IF seq = <<>> \/ seq = <<EPS>> THEN {EPS} ELSE first_of_seq_from(fst, seq, 1)

\* one production of the FIRST pass, lines 197-203
FirstStep(fst, A, alpha) ==
    LET seq_first == first_of_seq(fst, alpha) IN
    [fst EXCEPT ![A] = (@ \cup (seq_first \ {EPS}))
                       \cup (IF EPS \in seq_first THEN {EPS} ELSE {})]

\* a pass whose flag forgets an earlier change: changed = (len != before)
RECURSIVE FirstPassFromLastOnly(_, _, _, _)
FirstPassFromLastOnly(ps, k, fst, changed) ==
    IF k > Len(ps) THEN [first |-> fst, changed |-> changed]
    ELSE LET nf == FirstStep(fst, ps[k][1], ps[k][2]) IN
         FirstPassFromLastOnly(ps, k + 1, nf,
             Cardinality(nf[ps[k][1]]) # Cardinality(fst[ps[k][1]]))

\* one run of the body of `while changed` for FIRST, lines 194-203
RECURSIVE FirstPassFrom(_, _, _, _)
FirstPassFrom(ps, k, fst, changed) ==
    IF k > Len(ps) THEN [first |-> fst, changed |-> changed]
    ELSE LET nf == FirstStep(fst, ps[k][1], ps[k][2]) IN
         FirstPassFrom(ps, k + 1, nf,
             changed \/ Cardinality(nf[ps[k][1]]) # Cardinality(fst[ps[k][1]]))

FirstPassOf(gr, fst) == FirstPassFrom(ProdList(gr), 1, fst, FALSE)

\* an occurrence that takes FIRST(beta) but never follow[A]
FollowStepNoInherit(gr, fst, fol, A, alpha, i) ==
    LET B == alpha[i]
        beta == SubSeq(alpha, i + 1, Len(alpha))
        first_beta == first_of_seq(fst, beta)
    IN  IF B \notin gr.nonterminals THEN fol
        ELSE [fol EXCEPT ![B] = @ \cup (first_beta \ {EPS})]

\* one occurrence B = alpha[i] in the FOLLOW pass, lines 214-224
FollowStep(gr, fst, fol, A, alpha, i) ==
    LET B == alpha[i]
        beta == SubSeq(alpha, i + 1, Len(alpha))
        first_beta == first_of_seq(fst, beta)
    IN  IF B \notin gr.nonterminals THEN fol
        ELSE LET f1 == [fol EXCEPT ![B] = @ \cup (first_beta \ {EPS})] IN
             IF EPS \in first_beta \/ beta = <<>>
             THEN [f1 EXCEPT ![B] = @ \cup f1[A]]
             ELSE f1

RECURSIVE FollowAlpha(_, _, _, _, _, _, _)
FollowAlpha(gr, fst, fol, A, alpha, i, changed) ==
    IF i > Len(alpha) THEN [follow |-> fol, changed |-> changed]
    ELSE LET nf == FollowStep(gr, fst, fol, A, alpha, i) IN
         FollowAlpha(gr, fst, nf, A, alpha, i + 1, changed \/ nf # fol)

\* a FOLLOW pass whose flag tells of its last production only
RECURSIVE FollowPassFromLastOnly(_, _, _, _, _, _)
FollowPassFromLastOnly(gr, fst, ps, k, fol, changed) ==
    IF k > Len(ps) THEN [follow |-> fol, changed |-> changed]
    ELSE LET r == FollowAlpha(gr, fst, fol, ps[k][1], ps[k][2], 1, FALSE) IN
         FollowPassFromLastOnly(gr, fst, ps, k + 1, r.follow, r.changed)

\* one run of the body of `while changed` for FOLLOW, lines 211-224
RECURSIVE FollowPassFrom(_, _, _, _, _, _)
FollowPassFrom(gr, fst, ps, k, fol, changed) ==
    IF k > Len(ps) THEN [follow |-> fol, changed |-> changed]
    ELSE LET r == FollowAlpha(gr, fst, fol, ps[k][1], ps[k][2], 1, changed) IN
         FollowPassFrom(gr, fst, ps, k + 1, r.follow, r.changed)

FollowPassOf(gr, fst, fol) == FollowPassFrom(gr, fst, ProdList(gr), 1, fol, FALSE)

\* lines 206-208: follow[start].add(END)
SeedFollow(gr, fol) == [fol EXCEPT ![gr.start_symbol] = @ \cup {END}]

RECURSIVE FirstLoop(_, _)
FirstLoop(gr, fst) ==
    LET r == FirstPassOf(gr, fst) IN
    IF r.changed THEN FirstLoop(gr, r.first) ELSE r.first

RECURSIVE FollowLoop(_, _, _)
FollowLoop(gr, fst, fol) ==
    LET r == FollowPassOf(gr, fst, fol) IN
    IF r.changed THEN FollowLoop(gr, fst, r.follow) ELSE r.follow

\* a whole call of FirstFollow.compute() on the object's current sets
Compute(gr, fst, fol) ==
    LET nf == FirstLoop(gr, fst) IN
    [first |-> nf, follow |-> FollowLoop(gr, nf, SeedFollow(gr, fol))]

----------------------------------------------------------------------------
(* LL1Parser._build_table *)

\* one write table[A][a] = alpha with its conflict test, lines 241-244
LL1Write(tc, A, a, alpha) ==
    [table |-> Put(tc.table, <<A, a>>, alpha),
     conflicts |->
        IF Has(tc.table, <<A, a>>) /\ tc.table[<<A, a>>] # alpha
        THEN Append(tc.conflicts, <<A, a, tc.table[<<A, a>>], alpha>>)
        ELSE tc.conflicts]

RECURSIVE LL1WriteAll(_, _, _, _, _)
LL1WriteAll(tc, A, as, k, alpha) ==
    IF k > Len(as) THEN tc
    ELSE LL1WriteAll(LL1Write(tc, A, as[k], alpha), A, as, k + 1, alpha)

\* a production written under FIRST(alpha) only, never under FOLLOW(A)
LL1ProdFirstOnly(fst, fol, tc, A, alpha) ==
    LL1WriteAll(tc, A, Iter(first_of_seq(fst, alpha) \ {EPS}), 1, alpha)

\* one production of _build_table, lines 239-250
LL1Prod(fst, fol, tc, A, alpha) ==
    LET first_alpha == first_of_seq(fst, alpha)
        t1 == LL1WriteAll(tc, A, Iter(first_alpha \ {EPS}), 1, alpha)
    IN  IF EPS \in first_alpha
        THEN LL1WriteAll(t1, A, Iter(fol[A]), 1, alpha)
        ELSE t1

RECURSIVE LL1BuildFrom(_, _, _, _, _)
LL1BuildFrom(fst, fol, ps, k, tc) ==
    IF k > Len(ps) THEN tc
    ELSE LL1BuildFrom(fst, fol, ps, k + 1, LL1Prod(fst, fol, tc, ps[k][1], ps[k][2]))

build_table(gr, fst, fol) ==
    LL1BuildFrom(fst, fol, ProdList(gr), 1, [table |-> EmptyDict, conflicts |-> <<>>])

----------------------------------------------------------------------------
(* SLR1Parser: augmented grammar, LR(0) automaton, ACTION / GOTO *)

Kinds == {"slr1", "lr1", "lalr1"}

\* line 339 (and 640): the name of the augmented start symbol
aug_start(gr) ==
    IF (gr.start_symbol \o "'") \notin gr.nonterminals
    THEN gr.start_symbol \o "'"
    ELSE gr.start_symbol \o "_S"

\* lines 343-345
norm(rhs) == IF rhs = <<EPS>> THEN <<>> ELSE rhs

\* productions[A] = alts on a dict kept in insertion order
SetAlts(prods, A, alts) ==
    IF \E k \in 1..Len(prods) : prods[k].lhs = A
    THEN [k \in 1..Len(prods) |->
            IF prods[k].lhs = A THEN Alts(A, alts) ELSE prods[k]]
    ELSE Append(prods, Alts(A, alts))

\* the fields __init__ sets before the automaton is built, lines 335-349
ParserOf(gr) ==
    [aug_start |-> aug_start(gr),
     nonterminals |-> gr.nonterminals \cup {aug_start(gr)},
     terminals |-> gr.terminals \cup {END},
     productions |->
        SetAlts([k \in 1..Len(gr.productions) |->
                    Alts(gr.productions[k].lhs,
                         [i \in 1..Len(gr.productions[k].alts) |->
                            norm(gr.productions[k].alts[i])])],
                aug_start(gr), << <<gr.start_symbol>> >>)]

\* self.productions.get(B, []) as a set of right-hand sides
ProdsOf(ps, B) ==
    UNION { { ps.productions[k].alts[i] : i \in 1..Len(ps.productions[k].alts) } :
            k \in { n \in 1..Len(ps.productions) : ps.productions[n].lhs = B } }

\* the symbol after the dot of an item whose dot is not at the end
AfterDot(it) == it[2][it[3] + 1]

DotAtEnd(it) == it[3] = Len(it[2])

\* SLR1Parser._closure
RECURSIVE closure(_, _)
closure(ps, items) ==
    LET new_items ==
            UNION { { <<AfterDot(it), prod, 0>> : prod \in ProdsOf(ps, AfterDot(it)) } :
                    it \in { x \in items :
                             ~DotAtEnd(x) /\ AfterDot(x) \in ps.nonterminals } }
    IN  IF new_items \subseteq items THEN items
        ELSE closure(ps, items \cup new_items)

\* SLR1Parser._goto
goto(ps, I, X) ==
    LET J == { <<it[1], it[2], it[3] + 1>> :
                it \in { x \in I : ~DotAtEnd(x) /\ AfterDot(x) = X } }
    IN  IF J = {} THEN {} ELSE closure(ps, J)

\* lines 393-396: I0 and the initial worklist
LR0Start(ps, gr) ==
    [states |-> << closure(ps, { <<ps.aug_start, <<gr.start_symbol>>, 0>> }) >>,
     transitions |-> EmptyDict,
     worklist |-> <<0>>]

\* lines 405-414 for one symbol X of state i; GotoOf is _goto or _goto_lr1
Explore(GotoOf(_, _), aut, i, X) ==
    LET J == GotoOf(aut.states[i + 1], X)
        found == IndexFrom(aut.states, J, 1)
    IN  IF J = {} THEN aut
        ELSE IF found < Len(aut.states)
        THEN [aut EXCEPT !.transitions = Put(@, <<i, X>>, found)]
        ELSE [states |-> Append(aut.states, J),
              transitions |-> Put(aut.transitions, <<i, X>>, Len(aut.states)),
              worklist |-> Append(aut.worklist, Len(aut.states))]

\* an iteration that explores one of the symbols after a dot and no other
LR0PopOneSymbol(ps, aut) ==
    LET i == Head(aut.worklist)
        I == aut.states[i + 1]
        symbols == { AfterDot(it) : it \in { x \in I : ~DotAtEnd(x) } }
    IN  IF symbols = {} THEN [aut EXCEPT !.worklist = Tail(@)]
        ELSE Explore(LAMBDA S, Y : goto(ps, S, Y),
                     [aut EXCEPT !.worklist = Tail(@)], i,
                     CHOOSE X \in symbols : TRUE)

\* one iteration of the worklist loop of _build_lr0_automaton, lines 398-414
LR0Pop(ps, aut) ==
    LET i == Head(aut.worklist)
        I == aut.states[i + 1]
        symbols == { AfterDot(it) : it \in { x \in I : ~DotAtEnd(x) } }
    IN  Fold(LAMBDA acc, X : Explore(LAMBDA S, Y : goto(ps, S, Y), acc, i, X),
             [aut EXCEPT !.worklist = Tail(@)], Iter(symbols))

Shift(j) == [kind |-> "s", j |-> j]
Reduce(A, alpha) == [kind |-> "r", prod |-> <<A, alpha>>]
Accept == [kind |-> "acc"]
ErrEntry == [kind |-> "err"]
\* the value None where an ACTION entry is expected
NoEntry == [kind |-> "None"]

HasPrec(gr, sym) == Has(gr.precedence, sym)

\* SLR1Parser._prod_prec as the rightmost terminal of the production, or None
RECURSIVE RightmostTerminal(_, _, _)
RightmostTerminal(gr, alpha, k) ==
    IF k = 0 THEN EPS
    ELSE IF alpha[k] \in gr.terminals THEN alpha[k]
    ELSE RightmostTerminal(gr, alpha, k - 1)

ProdHasPrec(gr, prod) ==
    HasPrec(gr, RightmostTerminal(gr, prod[2], Len(prod[2])))

prod_prec(gr, prod) == gr.precedence[RightmostTerminal(gr, prod[2], Len(prod[2]))]

\* a choice that prefers the side without a precedence
choose_sr_swapped(gr, lookahead, reduce_entry, shift_entry) ==
    LET la == HasPrec(gr, lookahead)
        pp == ProdHasPrec(gr, reduce_entry.prod)
    IN  IF la /\ ~pp THEN reduce_entry
        ELSE IF ~la /\ pp THEN shift_entry
        ELSE NoEntry

\* a comparison of the two levels in the wrong direction
choose_sr_inverted(gr, lookahead, reduce_entry, shift_entry) ==
    LET la == HasPrec(gr, lookahead)
        pp == ProdHasPrec(gr, reduce_entry.prod)
    IN  IF la /\ ~pp THEN shift_entry
        ELSE IF ~la /\ pp THEN reduce_entry
        ELSE IF ~la /\ ~pp THEN NoEntry
        ELSE IF gr.precedence[lookahead] < prod_prec(gr, reduce_entry.prod) THEN shift_entry
        ELSE IF gr.precedence[lookahead] > prod_prec(gr, reduce_entry.prod) THEN reduce_entry
        ELSE IF Has(gr.assoc, lookahead) /\ gr.assoc[lookahead] = "left" THEN reduce_entry
        ELSE IF Has(gr.assoc, lookahead) /\ gr.assoc[lookahead] = "right" THEN shift_entry
        ELSE IF Has(gr.assoc, lookahead) /\ gr.assoc[lookahead] = "nonassoc" THEN ErrEntry
        ELSE NoEntry

\* %Left taken for %Right and %Right for %Left on equal levels
choose_sr_assoc_flipped(gr, lookahead, reduce_entry, shift_entry) ==
    LET la == HasPrec(gr, lookahead)
        pp == ProdHasPrec(gr, reduce_entry.prod)
    IN  IF la /\ ~pp THEN shift_entry
        ELSE IF ~la /\ pp THEN reduce_entry
        ELSE IF ~la /\ ~pp THEN NoEntry
        ELSE IF gr.precedence[lookahead] > prod_prec(gr, reduce_entry.prod) THEN shift_entry
        ELSE IF gr.precedence[lookahead] < prod_prec(gr, reduce_entry.prod) THEN reduce_entry
        ELSE IF Has(gr.assoc, lookahead) /\ gr.assoc[lookahead] = "left" THEN shift_entry
        ELSE IF Has(gr.assoc, lookahead) /\ gr.assoc[lookahead] = "right" THEN reduce_entry
        ELSE IF Has(gr.assoc, lookahead) /\ gr.assoc[lookahead] = "nonassoc" THEN ErrEntry
        ELSE NoEntry

\* choose_sr, lines 480-502
choose_sr(gr, lookahead, reduce_entry, shift_entry) ==
    LET la == HasPrec(gr, lookahead)
        pp == ProdHasPrec(gr, reduce_entry.prod)
    IN  IF la /\ ~pp THEN shift_entry
        ELSE IF ~la /\ pp THEN reduce_entry
        ELSE IF ~la /\ ~pp THEN NoEntry
        ELSE IF gr.precedence[lookahead] > prod_prec(gr, reduce_entry.prod) THEN shift_entry
        ELSE IF gr.precedence[lookahead] < prod_prec(gr, reduce_entry.prod) THEN reduce_entry
        ELSE IF Has(gr.assoc, lookahead) /\ gr.assoc[lookahead] = "left" THEN reduce_entry
        ELSE IF Has(gr.assoc, lookahead) /\ gr.assoc[lookahead] = "right" THEN shift_entry
        ELSE IF Has(gr.assoc, lookahead) /\ gr.assoc[lookahead] = "nonassoc" THEN ErrEntry
        ELSE NoEntry

\* (p or -1) of lines 517-519
PrecOrLow(gr, prod) == IF ProdHasPrec(gr, prod) THEN prod_prec(gr, prod) ELSE NoPrec

\* a reduce/reduce branch that compares the two levels with >= and so keeps
\* the first reduce on equal levels as a resolved conflict
resolve_conflict_rr_geq(gr, lookahead, prev, new) ==
    IF {prev.kind, new.kind} = {"s", "r"}
    THEN (IF prev.kind = "r" THEN choose_sr(gr, lookahead, prev, new)
          ELSE choose_sr(gr, lookahead, new, prev))
    ELSE IF {prev.kind, new.kind} = {"r"}
    THEN (IF ProdHasPrec(gr, prev.prod) \/ ProdHasPrec(gr, new.prod)
          THEN (IF PrecOrLow(gr, prev.prod) >= PrecOrLow(gr, new.prod) THEN prev
                ELSE new)
          ELSE NoEntry)
    ELSE NoEntry

\* SLR1Parser._resolve_conflict
resolve_conflict(gr, lookahead, prev, new) ==
    IF {prev.kind, new.kind} = {"s", "r"}
    THEN (IF prev.kind = "r" THEN choose_sr(gr, lookahead, prev, new)
          ELSE choose_sr(gr, lookahead, new, prev))
    ELSE IF {prev.kind, new.kind} = {"r"}
    THEN (IF ProdHasPrec(gr, prev.prod) \/ ProdHasPrec(gr, new.prod)
          THEN (IF PrecOrLow(gr, prev.prod) > PrecOrLow(gr, new.prod) THEN prev
                ELSE IF PrecOrLow(gr, new.prod) > PrecOrLow(gr, prev.prod) THEN new
                ELSE NoEntry)
          ELSE NoEntry)
    ELSE NoEntry

\* an unresolved conflict that is logged but leaves the newer action in the cell
add_action_keep_new(gr, tab, i, a, entry) ==
    IF ~Has(tab.Action, <<i, a>>) \/ tab.Action[<<i, a>>] = entry
    THEN [tab EXCEPT !.Action = Put(@, <<i, a>>, entry)]
    ELSE LET prev == tab.Action[<<i, a>>]
             resolved == resolve_conflict(gr, a, prev, entry)
         IN  IF resolved # NoEntry
             THEN [Action |-> Put(tab.Action, <<i, a>>, resolved),
                   conflicts |-> Append(tab.conflicts,
                        [resolved |-> TRUE, state |-> i, symbol |-> a,
                         prev |-> prev, new |-> entry, result |-> resolved])]
             ELSE [Action |-> Put(tab.Action, <<i, a>>, entry),
                   conflicts |-> Append(tab.conflicts,
                        [resolved |-> FALSE, state |-> i, symbol |-> a,
                         prev |-> prev, new |-> entry, result |-> prev])]

\* a write that replaces the cell and logs nothing
add_action_overwrite(gr, tab, i, a, entry) ==
    [tab EXCEPT !.Action = Put(@, <<i, a>>, entry)]

\* SLR1Parser._add_action on tab = [Action, conflicts]
add_action(gr, tab, i, a, entry) ==
    IF ~Has(tab.Action, <<i, a>>) \/ tab.Action[<<i, a>>] = entry
    THEN [tab EXCEPT !.Action = Put(@, <<i, a>>, entry)]
    ELSE LET prev == tab.Action[<<i, a>>]
             resolved == resolve_conflict(gr, a, prev, entry)
         IN  IF resolved # NoEntry
             THEN [Action |-> Put(tab.Action, <<i, a>>, resolved),
                   conflicts |-> Append(tab.conflicts,
                        [resolved |-> TRUE, state |-> i, symbol |-> a,
                         prev |-> prev, new |-> entry, result |-> resolved])]
             ELSE [tab EXCEPT !.conflicts = Append(@,
                        [resolved |-> FALSE, state |-> i, symbol |-> a,
                         prev |-> prev, new |-> entry, result |-> prev])]

\* shifts that name the state they are entered in as their target
AddShiftsToSelf(ps, gr, aut, tab, i) ==
    Fold(LAMBDA acc, it :
            IF ~DotAtEnd(it) /\ AfterDot(it) \in ps.terminals
               /\ Has(aut.transitions, <<i, AfterDot(it)>>)
            THEN add_action(gr, acc, i, AfterDot(it), Shift(i))
            ELSE acc,
         tab, Iter(aut.states[i + 1]))

\* the shift loop of one state, lines 419-425 (and 740-746)
AddShifts(ps, gr, aut, tab, i) ==
    Fold(LAMBDA acc, it :
            IF ~DotAtEnd(it) /\ AfterDot(it) \in ps.terminals
               /\ Has(aut.transitions, <<i, AfterDot(it)>>)
            THEN add_action(gr, acc, i, AfterDot(it),
                            Shift(aut.transitions[<<i, AfterDot(it)>>]))
            ELSE acc,
         tab, Iter(aut.states[i + 1]))

\* reduces entered under every terminal, as in an LR(0) table
AddReducesLR0(ps, gr, fol, aut, tab, i) ==
    Fold(LAMBDA acc, it :
            IF ~DotAtEnd(it) THEN acc
            ELSE IF it[1] = ps.aug_start THEN add_action(gr, acc, i, END, Accept)
            ELSE Fold(LAMBDA acc2, a : add_action(gr, acc2, i, a, Reduce(it[1], it[2])),
                      acc, Iter(ps.terminals)),
         tab, Iter(aut.states[i + 1]))

\* reduces entered under FIRST of the left-hand side instead of FOLLOW
AddReducesUnderFirst(ps, gr, fol, aut, tab, i) ==
    Fold(LAMBDA acc, it :
            IF ~DotAtEnd(it) THEN acc
            ELSE IF it[1] = ps.aug_start THEN add_action(gr, acc, i, END, Accept)
            ELSE Fold(LAMBDA acc2, a : add_action(gr, acc2, i, a, Reduce(it[1], it[2])),
                      acc, Iter(first[it[1]] \ {EPS})),
         tab, Iter(aut.states[i + 1]))

\* the reduce / accept loop of one state in the SLR(1) table, lines 428-434
AddReducesSLR(ps, gr, fol, aut, tab, i) ==
    Fold(LAMBDA acc, it :
            IF ~DotAtEnd(it) THEN acc
            ELSE IF it[1] = ps.aug_start THEN add_action(gr, acc, i, END, Accept)
            ELSE Fold(LAMBDA acc2, a : add_action(gr, acc2, i, a, Reduce(it[1], it[2])),
                      acc, Iter(fol[it[1]])),
         tab, Iter(aut.states[i + 1]))

\* GOTO restricted to the transitions that leave state 0
GotoTableFromStart(ps, aut) ==
    [k \in { x \in DOMAIN aut.transitions :
                x[2] \in ps.nonterminals /\ x[1] = 0 } |->
        aut.transitions[k]]

\* lines 437-440 for every state: GOTO is transitions on nonterminals
GotoTable(ps, aut) ==
    [k \in { x \in DOMAIN aut.transitions : x[2] \in ps.nonterminals } |->
        aut.transitions[k]]

\* a table whose reduces and accept are entered before the shifts of a state
build_slr1_tables_reduces_first(ps, gr, fol, aut) ==
    LET tab == Fold(LAMBDA acc, i :
                        AddShifts(ps, gr, aut,
                                  AddReducesSLR(ps, gr, fol, aut, acc, i), i),
                    [Action |-> EmptyDict, conflicts |-> <<>>],
                    [n \in 1..Len(aut.states) |-> n - 1])
    IN  [states |-> aut.states, transitions |-> aut.transitions,
         Action |-> tab.Action, GOTO |-> GotoTable(ps, aut),
         conflicts |-> tab.conflicts]

\* SLR1Parser._build_slr1_tables
build_slr1_tables(ps, gr, fol, aut) ==
    LET tab == Fold(LAMBDA acc, i :
                        AddReducesSLR(ps, gr, fol, aut,
                                      AddShifts(ps, gr, aut, acc, i), i),
                    [Action |-> EmptyDict, conflicts |-> <<>>],
                    [n \in 1..Len(aut.states) |-> n - 1])
    IN  [states |-> aut.states, transitions |-> aut.transitions,
         Action |-> tab.Action, GOTO |-> GotoTable(ps, aut),
         conflicts |-> tab.conflicts]

----------------------------------------------------------------------------
(* LR1Parser: LR(1) items <<A, alpha, dot, la>>, canonical and LALR(1) *)

\* a closure whose new items take over the lookaheads of the given items
closure_lr1_inherited(ps, fst, I) ==
    LET cores == { <<it[1], it[2], it[3]>> : it \in I }
    IN  I \cup { <<c[1], c[2], c[3], it[4]>> :
                    c \in closure(ps, cores) \ cores, it \in I }

\* LR1Parser._closure_lr1
RECURSIVE closure_lr1(_, _, _)
closure_lr1(ps, fst, I) ==
    LET new_items ==
            UNION { { <<AfterDot(it), prod, 0, a>> :
                        prod \in ProdsOf(ps, AfterDot(it)),
                        a \in first_of_seq(fst,
                                SubSeq(it[2], it[3] + 2, Len(it[2])) \o <<it[4]>>)
                              \ {EPS} } :
                    it \in { x \in I :
                             ~DotAtEnd(x) /\ AfterDot(x) \in ps.nonterminals } }
    IN  IF new_items \subseteq I THEN I
        ELSE closure_lr1(ps, fst, I \cup new_items)

\* a goto that returns the moved items without their closure
goto_lr1_kernel(ps, fst, I, X) ==
    { <<it[1], it[2], it[3] + 1, it[4]>> :
        it \in { x \in I : ~DotAtEnd(x) /\ AfterDot(x) = X } }

\* LR1Parser._goto_lr1
goto_lr1(ps, fst, I, X) ==
    LET J == { <<it[1], it[2], it[3] + 1, it[4]>> :
                it \in { x \in I : ~DotAtEnd(x) /\ AfterDot(x) = X } }
    IN  IF J = {} THEN {} ELSE closure_lr1(ps, fst, J)

\* lines 695-699
LR1Start(ps, gr, fst) ==
    [states |-> << closure_lr1(ps, fst,
                        { <<ps.aug_start, <<gr.start_symbol>>, 0, END>> }) >>,
     transitions |-> EmptyDict,
     worklist |-> <<0>>]

\* one iteration of the worklist loop of _build_lr1_automaton, lines 700-717;
\* work.pop() takes the newest entry
LR1Pop(ps, fst, aut) ==
    LET i == aut.worklist[Len(aut.worklist)]
        I == aut.states[i + 1]
        symbols == { AfterDot(it) : it \in { x \in I : ~DotAtEnd(x) } }
    IN  Fold(LAMBDA acc, X :
                Explore(LAMBDA S, Y : goto_lr1(ps, fst, S, Y), acc, i, X),
             [aut EXCEPT !.worklist = SubSeq(@, 1, Len(@) - 1)], Iter(symbols))

Core(I) == { <<it[1], it[2], it[3]>> : it \in I }

\* lines 719-730: idx_map, as a sequence over the canonical states; a state
\* gets the index of the first state with its core, counted among first ones
IdxMap(states) ==
    LET firstOf(n) == CHOOSE m \in 1..n :
                        /\ Core(states[m]) = Core(states[n])
                        /\ \A q \in 1..(m - 1) : Core(states[q]) # Core(states[n])
        isFirst(n) == firstOf(n) = n
    IN  [n \in 1..Len(states) |->
            Cardinality({ m \in 1..firstOf(n) : isFirst(m) }) - 1]

\* lines 718-733: the merged states and the re-indexed transitions
\* a merge that keeps the first state of every core and drops the others
LALRMergeFirstOnly(aut) ==
    LET idx_map == IdxMap(aut.states)
        count == Cardinality({ idx_map[n] : n \in 1..Len(aut.states) })
        keys == { <<idx_map[k[1] + 1], k[2]>> : k \in DOMAIN aut.transitions }
    IN  [states |-> [m \in 1..count |->
                        aut.states[CHOOSE n \in 1..Len(aut.states) :
                            /\ idx_map[n] = m - 1
                            /\ \A q \in 1..(n - 1) : idx_map[q] # m - 1]],
         transitions |-> [key \in keys |->
                        idx_map[aut.transitions[
                            CHOOSE k \in DOMAIN aut.transitions :
                                <<idx_map[k[1] + 1], k[2]>> = key] + 1]],
         worklist |-> <<>>]

LALRMerge(aut) ==
    LET idx_map == IdxMap(aut.states)
        count == Cardinality({ idx_map[n] : n \in 1..Len(aut.states) })
        keys == { <<idx_map[k[1] + 1], k[2]>> : k \in DOMAIN aut.transitions }
    IN  [states |-> [m \in 1..count |->
                        UNION { aut.states[n] :
                                n \in { q \in 1..Len(aut.states) : idx_map[q] = m - 1 } }],
         transitions |-> [key \in keys |->
                        idx_map[aut.transitions[
                            CHOOSE k \in DOMAIN aut.transitions :
                                <<idx_map[k[1] + 1], k[2]>> = key] + 1]],
         worklist |-> <<>>]

\* reduces entered under all of FOLLOW, the item's lookahead ignored
AddReducesLR1Follow(ps, gr, aut, tab, i) ==
    Fold(LAMBDA acc, it :
            IF ~DotAtEnd(it) THEN acc
            ELSE IF it[1] = ps.aug_start THEN add_action(gr, acc, i, END, Accept)
            ELSE Fold(LAMBDA acc2, a : add_action(gr, acc2, i, a, Reduce(it[1], it[2])),
                      acc, Iter(follow[it[1]])),
         tab, Iter(aut.states[i + 1]))

\* the reduce / accept loop of one state in the LR(1) table, lines 747-752
AddReducesLR1(ps, gr, aut, tab, i) ==
    Fold(LAMBDA acc, it :
            IF ~DotAtEnd(it) THEN acc
            ELSE IF it[1] = ps.aug_start THEN add_action(gr, acc, i, END, Accept)
            ELSE add_action(gr, acc, i, it[4], Reduce(it[1], it[2])),
         tab, Iter(aut.states[i + 1]))

\* LR1Parser._build_lr1_tables
build_lr1_tables(ps, gr, aut) ==
    LET tab == Fold(LAMBDA acc, i :
                        AddReducesLR1(ps, gr, aut,
                                      AddShifts(ps, gr, aut, acc, i), i),
                    [Action |-> EmptyDict, conflicts |-> <<>>],
                    [n \in 1..Len(aut.states) |-> n - 1])
    IN  [states |-> aut.states, transitions |-> aut.transitions,
         Action |-> tab.Action, GOTO |-> GotoTable(ps, aut),
         conflicts |-> tab.conflicts]

\* a parser object whose tables are not built yet
NoParser ==
    [states |-> <<>>, transitions |-> EmptyDict, Action |-> EmptyDict,
     GOTO |-> EmptyDict, conflicts |-> <<>>]

----------------------------------------------------------------------------
(* parse: the locals of one call are the record `run`; parse-tree nodes    *)
(* live in run.nodes and are named by their position (0 is None)           *)

Last(seq) == seq[Len(seq)]
Front(seq) == SubSeq(seq, 1, Len(seq) - 1)

Node(sym, children) == [symbol |-> sym, children |-> children]

\* no call is active
NoRun ==
    [input_stream |-> <<>>, stack |-> <<>>, states |-> <<>>, symbols |-> <<>>,
     node_stack |-> <<>>, nodes |-> <<>>, steps |-> <<>>, ok |-> TRUE,
     trace |-> "", running |-> FALSE, raised |-> FALSE]

\* LL1Parser.parse, lines 255-267
LL1Enter(gr, toks) ==
    [NoRun EXCEPT !.input_stream = toks \o <<END>>,
                  !.stack = <<END, gr.start_symbol>>,
                  !.nodes = << Node(gr.start_symbol, <<>>) >>,
                  !.node_stack = <<0, 1>>,
                  !.trace = "init", !.running = TRUE]

\* an expansion that pushes the right-hand side first symbol first
LL1ExpandForward(r, top, entry) ==
    LET base == IF Last(r.node_stack) = 0
                THEN Append(r.nodes, Node(top, <<>>)) ELSE r.nodes
        parent == IF Last(r.node_stack) = 0 THEN Len(base) ELSE Last(r.node_stack)
        n == Len(base)
        ids == [i \in 1..Len(entry) |-> n + i]
    IN  IF entry = <<EPS>>
        THEN [r EXCEPT
                !.stack = Front(@),
                !.node_stack = Front(@),
                !.nodes = [Append(base, Node(EPS, <<>>)) EXCEPT
                              ![parent].children = Append(@, n + 1)],
                !.steps = Append(@, <<top, entry>>),
                !.trace = "output"]
        ELSE [r EXCEPT
                !.stack = Front(@) \o entry,
                !.node_stack = Front(@) \o ids,
                !.nodes = [base \o [i \in 1..Len(entry) |-> Node(entry[i], <<>>)]
                              EXCEPT ![parent].children = @ \o ids],
                !.steps = Append(@, <<top, entry>>),
                !.trace = "output"]

\* lines 290-309: expand the nonterminal on top by the table entry
LL1Expand(r, top, entry) ==
    LET base == IF Last(r.node_stack) = 0
                THEN Append(r.nodes, Node(top, <<>>)) ELSE r.nodes
        parent == IF Last(r.node_stack) = 0 THEN Len(base) ELSE Last(r.node_stack)
        n == Len(base)
        ids == [i \in 1..Len(entry) |-> n + i]
    IN  IF entry = <<EPS>>
        THEN [r EXCEPT
                !.stack = Front(@),
                !.node_stack = Front(@),
                !.nodes = [Append(base, Node(EPS, <<>>)) EXCEPT
                              ![parent].children = Append(@, n + 1)],
                !.steps = Append(@, <<top, entry>>),
                !.trace = "output"]
        ELSE [r EXCEPT
                !.stack = Front(@) \o Reverse(entry),
                !.node_stack = Front(@) \o Reverse(ids),
                !.nodes = [base \o [i \in 1..Len(entry) |-> Node(entry[i], <<>>)]
                              EXCEPT ![parent].children = @ \o ids],
                !.steps = Append(@, <<top, entry>>),
                !.trace = "output"]

\* one iteration of the loop of LL1Parser.parse, lines 268-309
ll1_step(gr, tbl, r) ==
    LET top == Last(r.stack)
        a == Head(r.input_stream)
    IN  IF r.input_stream = <<>> \/ r.stack = <<>>
        THEN [r EXCEPT !.running = FALSE, !.raised = TRUE, !.trace = "IndexError"]
        ELSE IF top = a /\ a = END
        THEN [r EXCEPT !.trace = "accept", !.running = FALSE]
        ELSE IF top \in gr.terminals \/ top = END
        THEN (IF top = a
              THEN [r EXCEPT !.stack = Front(@), !.node_stack = Front(@),
                             !.input_stream = Tail(@), !.trace = "match"]
              ELSE [r EXCEPT !.ok = FALSE, !.running = FALSE,
                             !.trace = "error: terminal mismatch"])
        ELSE IF ~Has(tbl, <<top, a>>)
        THEN [r EXCEPT !.ok = FALSE, !.running = FALSE,
                       !.trace = "error: no table entry"]
        ELSE LL1Expand(r, top, tbl[<<top, a>>])

\* line 310
LL1Result(r) ==
    [ok |-> r.ok, tree |-> IF r.ok THEN 1 ELSE 0, derivations |-> r.steps,
     kind |-> "LL-leftmost", nodes |-> r.nodes, trace |-> r.trace,
     raised |-> r.raised]

\* SLR1Parser.parse lines 528-542, LR1Parser.parse lines 759-772
SREnter(toks) ==
    [NoRun EXCEPT !.input_stream = toks \o <<END>>, !.states = <<0>>,
                  !.trace = "init", !.running = TRUE]

\* a shift that pushes the state of the automaton it is in, not the target
SRShiftStay(r, a, j) ==
    [r EXCEPT !.symbols = Append(@, a),
              !.nodes = Append(@, Node(a, <<>>)),
              !.node_stack = Append(@, Len(r.nodes) + 1),
              !.states = Append(@, Last(r.states)),
              !.input_stream = Tail(@),
              !.trace = "shift"]

\* lines 553-557 (783-787)
SRShift(r, a, j) ==
    [r EXCEPT !.symbols = Append(@, a),
              !.nodes = Append(@, Node(a, <<>>)),
              !.node_stack = Append(@, Len(r.nodes) + 1),
              !.states = Append(@, j),
              !.input_stream = Tail(@),
              !.trace = "shift"]

\* seq[-k:] = [] for k > 0
DropLast(seq, k) == IF k >= Len(seq) THEN <<>> ELSE SubSeq(seq, 1, Len(seq) - k)

\* seq[-k:] for k > 0
TakeLast(seq, k) ==
    IF k >= Len(seq) THEN seq ELSE SubSeq(seq, Len(seq) - k + 1, Len(seq))

\* a reduce that hands the popped nodes to the new node last one first
SRReduceReversed(ptab, r, prod) ==
    LET A == prod[1]
        alpha == prod[2]
        k == IF alpha # <<EPS>> THEN Len(alpha) ELSE 0
        nodes1 == IF k > 0 THEN r.nodes ELSE Append(r.nodes, Node(EPS, <<>>))
        children == IF k > 0 THEN Reverse(TakeLast(r.node_stack, k))
                    ELSE << Len(nodes1) >>
        popped == [r EXCEPT !.symbols = DropLast(@, k), !.states = DropLast(@, k),
                            !.node_stack = DropLast(@, k), !.nodes = nodes1]
    IN  IF popped.states = <<>>
        THEN [popped EXCEPT !.running = FALSE, !.raised = TRUE,
                            !.trace = "IndexError"]
        ELSE IF ~Has(ptab.GOTO, <<Last(popped.states), A>>)
        THEN [popped EXCEPT !.ok = FALSE, !.running = FALSE,
                            !.trace = "error: no GOTO after reduce"]
        ELSE [popped EXCEPT
                !.symbols = Append(@, A),
                !.nodes = Append(@, Node(A, children)),
                !.node_stack = Append(@, Len(nodes1) + 1),
                !.states = Append(@, ptab.GOTO[<<Last(popped.states), A>>]),
                !.steps = Append(@, <<A, alpha>>),
                !.trace = "reduce"]

\* lines 563-588 (793-814)
SRReduce(ptab, r, prod) ==
    LET A == prod[1]
        alpha == prod[2]
        k == IF alpha # <<EPS>> THEN Len(alpha) ELSE 0
        nodes1 == IF k > 0 THEN r.nodes ELSE Append(r.nodes, Node(EPS, <<>>))
        children == IF k > 0 THEN TakeLast(r.node_stack, k) ELSE << Len(nodes1) >>
        symbols1 == IF k > 0 THEN DropLast(r.symbols, k) ELSE r.symbols
        states1 == IF k > 0 THEN DropLast(r.states, k) ELSE r.states
        node_stack1 == IF k > 0 THEN DropLast(r.node_stack, k) ELSE r.node_stack
        popped == [r EXCEPT !.symbols = symbols1, !.states = states1,
                            !.node_stack = node_stack1, !.nodes = nodes1]
    IN  IF states1 = <<>>
        THEN [popped EXCEPT !.running = FALSE, !.raised = TRUE,
                            !.trace = "IndexError"]
        ELSE IF ~Has(ptab.GOTO, <<Last(states1), A>>)
        THEN [popped EXCEPT !.ok = FALSE, !.running = FALSE,
                            !.trace = "error: no GOTO after reduce"]
        ELSE [popped EXCEPT
                !.symbols = Append(@, A),
                !.nodes = Append(@, Node(A, children)),
                !.node_stack = Append(@, Len(nodes1) + 1),
                !.states = Append(@, ptab.GOTO[<<Last(states1), A>>]),
                !.steps = Append(@, <<A, alpha>>),
                !.trace = "reduce"]

\* one iteration of the loop of SLR1Parser.parse / LR1Parser.parse
sr_step(ptab, r) ==
    LET s == Last(r.states)
        a == Head(r.input_stream)
    IN  IF r.input_stream = <<>>
        THEN [r EXCEPT !.running = FALSE, !.raised = TRUE, !.trace = "IndexError"]
        ELSE IF ~Has(ptab.Action, <<s, a>>)
        THEN [r EXCEPT !.ok = FALSE, !.running = FALSE,
                       !.trace = "error: no ACTION"]
        ELSE LET act == ptab.Action[<<s, a>>] IN
             IF act.kind = "s" THEN SRShift(r, a, act.j)
             ELSE IF act.kind = "r" THEN SRReduce(ptab, r, act.prod)
             ELSE IF act.kind = "acc"
             THEN [r EXCEPT !.trace = "accept", !.running = FALSE]
             ELSE [r EXCEPT !.ok = FALSE, !.running = FALSE,
                            !.trace = "error: unknown ACTION kind"]

KindName(k) ==
    IF k = "slr1" THEN "SLR-rightmost-rev"
    ELSE IF k = "lr1" THEN "LR(1)-rightmost-rev"
    ELSE "LALR(1)-rightmost-rev"

\* a result that hands out the top of the node stack even on failure
SRResultKeepTree(k, r) ==
    [ok |-> r.ok,
     tree |-> IF r.node_stack # <<>> THEN Last(r.node_stack) ELSE 0,
     derivations |-> r.steps, kind |-> KindName(k), nodes |-> r.nodes,
     trace |-> r.trace, raised |-> r.raised]

\* lines 596-597 (822-824)
SRResult(k, r) ==
    [ok |-> r.ok,
     tree |-> IF r.ok /\ r.node_stack # <<>> THEN Last(r.node_stack) ELSE 0,
     derivations |-> r.steps, kind |-> KindName(k), nodes |-> r.nodes,
     trace |-> r.trace, raised |-> r.raised]

\* all token sequences over the alphabet of length at most n
Seqs(alphabet, n) == UNION { [1..m -> alphabet] : m \in 0..n }

IdPlusIdTimesId == <<"id", "+", "id", "*", "id">>
IdPlusTimesId == <<"id", "+", "*", "id">>
NestedIfElse ==
    <<"if", "id", "then", "if", "id", "then", "id", "=", "id",
      "else", "id", "=", "id">>

IdPlusIdPlusId == <<"id", "+", "id", "+", "id">>

\* a token that is no symbol of any grammar
Stray == "zz"

\* short token sequences that may hold the end marker or a stray token
StrayInputs(gr) ==
    UNION { [1..m -> gr.terminals \cup {END, Stray}] : m \in {1, 2} }

ScenarioInputs(gr) ==
    IF gr = G_expr THEN {IdPlusIdTimesId, IdPlusTimesId}
    ELSE IF gr.productions = ElseProds THEN {NestedIfElse}
    ELSE IF gr.productions = AmbProds THEN {IdPlusIdPlusId, IdPlusIdTimesId}
    ELSE IF gr \in ParseGrammars THEN StrayInputs(gr)
    ELSE {}

Inputs(gr) == Seqs(gr.terminals, MaxLen) \cup ScenarioInputs(gr)

----------------------------------------------------------------------------
(* Reference definitions: derivations of the grammar, computed by plain    *)
(* set iteration, independently of FirstFollow.                            *)

ProdSet(gr) == { ProdList(gr)[k] : k \in 1..Len(ProdList(gr)) }

RhsSyms(alpha) == IF alpha = <<EPS>> THEN <<>> ELSE alpha

\* nonterminals that derive the empty string
RECURSIVE NullableFrom(_, _)
NullableFrom(gr, N) ==
    LET N2 == N \cup { p[1] : p \in { q \in ProdSet(gr) :
                   \A i \in 1..Len(RhsSyms(q[2])) : RhsSyms(q[2])[i] \in N } }
    IN  IF N2 = N THEN N ELSE NullableFrom(gr, N2)

Nullable(gr) == NullableFrom(gr, {})

\* seq =>* empty, N the nullable nonterminals
SeqNullable(N, seq) == \A i \in 1..Len(seq) : seq[i] \in N

\* symbols Y with seq = alpha Y gamma and alpha =>* empty
Heads(N, seq) ==
    { seq[i] : i \in { j \in 1..Len(seq) : SeqNullable(N, SubSeq(seq, 1, j - 1)) } }

\* symbols Y with X =>* Y gamma for some X in R
RECURSIVE LeadFrom(_, _, _)
LeadFrom(gr, N, R) ==
    LET R2 == R \cup UNION { Heads(N, RhsSyms(p[2])) :
                   p \in { q \in ProdSet(gr) : q[1] \in R } }
    IN  IF R2 = R THEN R ELSE LeadFrom(gr, N, R2)

\* terminals that begin a string derivable from the sequence
LeadTerminals(gr, N, seq) == LeadFrom(gr, N, Heads(N, seq)) \cap gr.terminals

\* FIRST of every nonterminal, from derivations
RefFirst(gr) ==
    LET N == Nullable(gr) IN
    [A \in gr.nonterminals |->
        LeadTerminals(gr, N, <<A>>) \cup (IF A \in N THEN {EPS} ELSE {})]

\* FIRST of a sequence of grammar symbols, RF the FIRST sets of nonterminals
RECURSIVE RefFirstSeq(_, _)
RefFirstSeq(RF, seq) ==
    IF seq = <<>> THEN {EPS}
    ELSE IF Head(seq) \notin DOMAIN RF THEN {Head(seq)}
    ELSE (RF[Head(seq)] \ {EPS})
         \cup (IF EPS \in RF[Head(seq)] THEN RefFirstSeq(RF, Tail(seq)) ELSE {})

\* the FOLLOW rules applied once to every production, on top of the seed
RefFollowStep(gr, RF, F) ==
    [B \in gr.nonterminals |->
        F[B] \cup (IF B = gr.start_symbol THEN {END} ELSE {})
        \cup UNION { UNION {
                LET beta == SubSeq(RhsSyms(p[2]), i + 1, Len(RhsSyms(p[2]))) IN
                (RefFirstSeq(RF, beta) \ {EPS})
                \cup (IF EPS \in RefFirstSeq(RF, beta) THEN F[p[1]] ELSE {}) :
                i \in { j \in 1..Len(RhsSyms(p[2])) : RhsSyms(p[2])[j] = B } } :
             p \in ProdSet(gr) }]

RECURSIVE RefFollowFrom(_, _, _)
RefFollowFrom(gr, RF, F) ==
    LET F2 == RefFollowStep(gr, RF, F) IN
    IF F2 = F THEN F ELSE RefFollowFrom(gr, RF, F2)

\* the least sets closed under the FOLLOW rules
RefFollow(gr) == RefFollowFrom(gr, RefFirst(gr), [B \in gr.nonterminals |-> {}])

\* the reference sets of a grammar, kept in the auxiliary variable ref
RefSets(gr) ==
    [nullable |-> Nullable(gr), first |-> RefFirst(gr), follow |-> RefFollow(gr)]

----------------------------------------------------------------------------
(* The pipeline *)

inputVars == <<gfile, g, order, method, ref>>
ffVars == <<first, follow, computes>>
ll1Vars == <<table, ll1_conflicts>>
lrVars == <<automaton, parser>>
parseVars == <<tokens, run, results, earlier>>

vars == <<inputVars, pc, ffVars, ll1Vars, lrVars, parseVars>>

NoAut == [states |-> <<>>, transitions |-> EmptyDict, worklist |-> <<>>]

\* no file: the Grammar object is handed over as from_file returned it
NoFile == File({}, {}, "", <<>>, <<>>)

InitOver(GS, MS) ==
    /\ gfile = NoFile
    /\ g \in GS
    /\ order \in Orders
    /\ method \in MS
    /\ ref = RefSets(g)
    /\ pc = "first"
    /\ first = InitFirst(g)
    /\ follow = InitFollow(g)
    /\ computes = 0
    /\ table = EmptyDict
    /\ ll1_conflicts = <<>>
    /\ automaton = NoAut
    /\ parser = [k \in Kinds |-> NoParser]
    /\ tokens = <<>>
    /\ run = NoRun
    /\ results = EmptyDict
    /\ earlier = <<>>

\* FirstFollow.compute, one iteration of the FIRST loop
FirstPass ==
    /\ pc = "first"
    /\ LET r == FirstPassOf(g, first) IN
        /\ first' = r.first
        /\ pc' = IF r.changed THEN "first" ELSE "seed"
    /\ UNCHANGED <<inputVars, follow, computes, ll1Vars, lrVars, parseVars>>

\* FirstFollow.compute, lines 206-209
FollowSeed ==
    /\ pc = "seed"
    /\ follow' = SeedFollow(g, follow)
    /\ pc' = "follow"
    /\ UNCHANGED <<inputVars, first, computes, ll1Vars, lrVars, parseVars>>

\* FirstFollow.compute, one iteration of the FOLLOW loop
FollowPass ==
    /\ pc = "follow"
    /\ LET r == FollowPassOf(g, first, follow) IN
        /\ follow' = r.follow
        /\ pc' = IF r.changed THEN "follow" ELSE "ff"
        /\ computes' = IF r.changed THEN computes ELSE computes + 1
    /\ UNCHANGED <<inputVars, first, ll1Vars, lrVars, parseVars>>

\* a further call of compute() on the constructed object
ExtraCompute ==
    /\ pc = "ff"
    /\ computes < MaxComputes
    /\ LET r == Compute(g, first, follow) IN
        /\ first' = r.first
        /\ follow' = r.follow
    /\ computes' = computes + 1
    /\ UNCHANGED <<inputVars, pc, ll1Vars, lrVars, parseVars>>

\* LL1Parser.__init__, main line 1430
BuildLL1 ==
    /\ pc = "ff"
    /\ method = "both"
    /\ LET tc == build_table(g, first, follow) IN
        /\ table' = tc.table
        /\ ll1_conflicts' = tc.conflicts
    /\ pc' = "ll1"
    /\ UNCHANGED <<inputVars, ffVars, lrVars, parseVars>>

\* SLR1Parser.__init__ up to the first lines of _build_lr0_automaton
SLRInit ==
    /\ pc = "ll1" \/ (pc = "ff" /\ method = "all")
    /\ automaton' = LR0Start(ParserOf(g), g)
    /\ pc' = "lr0"
    /\ UNCHANGED <<inputVars, ffVars, ll1Vars, parser, parseVars>>

\* _build_lr0_automaton, one worklist entry
LR0Step ==
    /\ pc = "lr0"
    /\ automaton' = LR0Pop(ParserOf(g), automaton)
    /\ pc' = IF automaton'.worklist = <<>> THEN "slr_tab" ELSE "lr0"
    /\ UNCHANGED <<inputVars, ffVars, ll1Vars, parser, parseVars>>

\* _build_slr1_tables
SLRTables ==
    /\ pc = "slr_tab"
    /\ parser' = [parser EXCEPT
                    !["slr1"] = build_slr1_tables(ParserOf(g), g, follow, automaton)]
    /\ pc' = IF method = "all" THEN "lr1_init" ELSE "ready"
    /\ UNCHANGED <<inputVars, ffVars, ll1Vars, automaton, parseVars>>

\* LR1Parser.__init__ up to the first lines of _build_lr1_automaton
LR1Init ==
    /\ pc = "lr1_init"
    /\ automaton' = LR1Start(ParserOf(g), g, first)
    /\ pc' = "lr1"
    /\ UNCHANGED <<inputVars, ffVars, ll1Vars, parser, parseVars>>

\* _build_lr1_automaton, one worklist entry
LR1Step ==
    /\ pc = "lr1"
    /\ automaton' = LR1Pop(ParserOf(g), first, automaton)
    /\ pc' = IF automaton'.worklist = <<>> THEN "lr1_tab" ELSE "lr1"
    /\ UNCHANGED <<inputVars, ffVars, ll1Vars, parser, parseVars>>

\* mode lr1: lines 735-736, then _build_lr1_tables
LR1Tables ==
    /\ pc = "lr1_tab"
    /\ parser' = [parser EXCEPT
                    !["lr1"] = build_lr1_tables(ParserOf(g), g, automaton)]
    /\ pc' = "lalr_merge"
    /\ UNCHANGED <<inputVars, ffVars, ll1Vars, automaton, parseVars>>

\* mode lalr1: lines 719-733 on the same canonical automaton.  The merged
\* states are new set objects filled by update(), so their iteration order
\* is chosen anew
LALRMergeStates ==
    /\ pc = "lalr_merge"
    /\ automaton' = LALRMerge(automaton)
    /\ order' \in Orders
    /\ pc' = "lalr_tab"
    /\ UNCHANGED <<gfile, g, method, ref, ffVars, ll1Vars, parser, parseVars>>

\* mode lalr1: _build_lr1_tables on the merged states
LALRTables ==
    /\ pc = "lalr_tab"
    /\ parser' = [parser EXCEPT
                    !["lalr1"] = build_lr1_tables(ParserOf(g), g, automaton)]
    /\ pc' = "ready"
    /\ UNCHANGED <<inputVars, ffVars, ll1Vars, automaton, parseVars>>

\* main, line 1411: the token sequence
ReadInput ==
    /\ pc = "ready"
    /\ tokens' \in Inputs(g)
    /\ pc' = IF method = "both" THEN "parse_ll1" ELSE "parse_slr1"
    /\ UNCHANGED <<inputVars, ffVars, ll1Vars, lrVars, run, results, earlier>>

\* the parse main runs after the one of engine k, lines 1428-1466
NextCall(k) ==
    IF method = "both"
    THEN (IF k = "ll1" THEN "parse_slr1" ELSE "done")
    ELSE (IF k = "slr1" THEN "parse_lalr1"
          ELSE IF k = "lalr1" THEN "parse_lr1" ELSE "done")

\* the call of LL1Parser.parse
CallLL1 ==
    /\ pc = "parse_ll1"
    /\ ~run.running
    /\ run' = LL1Enter(g, tokens)
    /\ UNCHANGED <<inputVars, pc, ffVars, ll1Vars, lrVars, tokens, results, earlier>>

\* LL1Parser.parse, one loop iteration; the last one returns
LL1Step ==
    /\ pc = "parse_ll1"
    /\ run.running
    /\ Len(run.steps) < MaxSteps
    /\ LET r == ll1_step(g, table, run) IN
        IF r.running
        THEN /\ run' = r
             /\ UNCHANGED <<pc, results>>
        ELSE /\ run' = NoRun
             /\ results' = Put(results, "ll1", LL1Result(r))
             /\ pc' = IF r.raised THEN "aborted" ELSE NextCall("ll1")
    /\ UNCHANGED <<inputVars, ffVars, ll1Vars, lrVars, tokens, earlier>>

\* the call of parse on the parser of kind k
CallSR(k) ==
    /\ pc = "parse_" \o k
    /\ ~run.running
    /\ run' = SREnter(tokens)
    /\ UNCHANGED <<inputVars, pc, ffVars, ll1Vars, lrVars, tokens, results, earlier>>

\* a loop iteration that leaves an error entry in ACTION where it found none
SRStepMemo(k) ==
    /\ pc = "parse_" \o k
    /\ run.running
    /\ Len(run.steps) < MaxSteps
    /\ LET r == sr_step(parser[k], run) IN
        /\ IF r.running
           THEN /\ run' = r
                /\ UNCHANGED <<pc, results>>
           ELSE /\ run' = NoRun
                /\ results' = Put(results, k, SRResult(k, r))
                /\ pc' = IF r.raised THEN "aborted" ELSE NextCall(k)
        /\ parser' = IF r.trace = "error: no ACTION"
                     THEN [parser EXCEPT ![k].Action =
                              Put(@, <<Last(run.states), Head(run.input_stream)>>,
                                  ErrEntry)]
                     ELSE parser
    /\ UNCHANGED <<inputVars, ffVars, ll1Vars, automaton, tokens, earlier>>

\* SLR1Parser.parse / LR1Parser.parse, one loop iteration; the last one returns
SRStep(k) ==
    /\ pc = "parse_" \o k
    /\ run.running
    /\ Len(run.steps) < MaxSteps
    /\ LET r == sr_step(parser[k], run) IN
        IF r.running
        THEN /\ run' = r
             /\ UNCHANGED <<pc, results>>
        ELSE /\ run' = NoRun
             /\ results' = Put(results, k, SRResult(k, r))
             /\ pc' = IF r.raised THEN "aborted" ELSE NextCall(k)
    /\ UNCHANGED <<inputVars, ffVars, ll1Vars, lrVars, tokens, earlier>>

NamedGrammars == {G_expr, G_else} \cup { G_else_prec(a) : a \in Assocs }

Methods == {"both", "all"}

Init == InitOver(NamedGrammars, Methods)

Next ==
    \/ FirstPass \/ FollowSeed \/ FollowPass \/ BuildLL1
    \/ SLRInit \/ LR0Step \/ SLRTables
    \/ LR1Init \/ LR1Step \/ LR1Tables \/ LALRMergeStates \/ LALRTables
    \/ ReadInput \/ CallLL1 \/ LL1Step
    \/ \E k \in Kinds : CallSR(k) \/ SRStep(k)

Spec == Init /\ [][Next]_vars

InitFF == InitOver(GenGrammars, {"both"})

NextFF == FirstPass \/ FollowSeed \/ FollowPass \/ ExtraCompute \/ BuildLL1

SpecFF == InitFF /\ [][NextFF]_vars

\* compute() runs on once called: its loops and the seed between them
ComputeStep == FirstPass \/ FollowSeed \/ FollowPass

\* ComputeStep can be taken exactly at these positions
ComputePcs == {"first", "seed", "follow"}

\* WF_vars(ComputeStep), with ENABLED <<ComputeStep>>_vars written as the
\* state predicate it is equal to
ComputeFair == []<>(pc \notin ComputePcs) \/ []<><<ComputeStep>>_vars

SpecFFFair == SpecFF /\ ComputeFair

\* both tables were built with an empty conflict list
ConflictFree == ll1_conflicts = <<>> /\ parser["slr1"].conflicts = <<>>

\* main with --method both on a grammar of the enumerated family, the input
\* read when neither engine reported a conflict
ReadInputConflictFree == ConflictFree /\ ReadInput

NextAgree ==
    \/ FirstPass \/ FollowSeed \/ FollowPass \/ BuildLL1
    \/ SLRInit \/ LR0Step \/ SLRTables
    \/ ReadInputConflictFree \/ CallLL1 \/ LL1Step
    \/ CallSR("slr1") \/ SRStep("slr1")

InitAgree == InitOver(RecGrammars, {"both"})

SpecAgree == InitAgree /\ [][NextAgree]_vars

\* main with --method all up to the built tables, on the table family
NextTables ==
    \/ FirstPass \/ FollowSeed \/ FollowPass
    \/ SLRInit \/ LR0Step \/ SLRTables
    \/ LR1Init \/ LR1Step \/ LR1Tables \/ LALRMergeStates \/ LALRTables

InitTables == InitOver(TabGrammars, {"all"})

SpecTables == InitTables /\ [][NextTables]_vars

\* main with --method all on the grammars with a precedence line and on
\* the grammar whose LR(1) states LALR(1) merges: tables, then the parses
NextLR ==
    \/ FirstPass \/ FollowSeed \/ FollowPass
    \/ SLRInit \/ LR0Step \/ SLRTables
    \/ LR1Init \/ LR1Step \/ LR1Tables \/ LALRMergeStates \/ LALRTables
    \/ ReadInput
    \/ \E k \in Kinds : CallSR(k) \/ SRStep(k)

InitLR == InitOver(LRGrammars, {"all"})

SpecLR == InitLR /\ [][NextLR]_vars

\* main with --method both or all on the grammars ParseGrammars, every
\* engine parsing the token sequence
InitParse == InitOver(ParseGrammars, Methods)

SpecParse == InitParse /\ [][Next]_vars

\* the steps of a running parse call
ParseStep == LL1Step \/ \E k \in Kinds : SRStep(k)

\* a loop iteration that can be taken is taken
SpecParseFair == SpecParse /\ WF_vars(ParseStep)

\* main, lines 1406-1407: Grammar.from_file(path), which raises ValueError
\* at line 149 when no start symbol was read, then FirstFollow.__init__
\* the grammars whose parsers are called again
AgainGrammars == {G_clash, G_end, G_list, G_nest}

\* what a later round of calls is given: the tokens of the first round, or
\* the present ones backwards
AgainInputs == {Head(Append(earlier, [tokens |-> tokens])).tokens, Reverse(tokens)}

\* the parsers are called once more, with a token sequence of their caller
ParseAgain ==
    /\ pc \in {"done", "aborted"}
    /\ Len(earlier) < MaxAgain
    /\ earlier' = Append(earlier, [tokens |-> tokens, results |-> results])
    /\ tokens' \in AgainInputs
    /\ results' = EmptyDict
    /\ pc' = IF method = "both" THEN "parse_ll1" ELSE "parse_slr1"
    /\ UNCHANGED <<inputVars, ffVars, ll1Vars, lrVars, run>>

InitAgain == InitOver(AgainGrammars, Methods)

NextAgain == Next \/ ParseAgain

SpecAgain == InitAgain /\ [][NextAgain]_vars

Load ==
    /\ pc = "load"
    /\ IF gfile.start = ""
       THEN /\ pc' = "raised"
            /\ UNCHANGED <<g, ref, first, follow>>
       ELSE /\ g' = from_file(gfile)
            /\ ref' = RefSets(g')
            /\ first' = InitFirst(g')
            /\ follow' = InitFollow(g')
            /\ pc' = "first"
    /\ UNCHANGED <<gfile, order, method, computes, ll1Vars, lrVars, parseVars>>

\* main called on a grammar file, --method all, up to the built tables
InitLoad ==
    /\ gfile \in LoadFiles
    /\ g = EmptyGrammar
    /\ order \in Orders
    /\ method = "all"
    /\ ref = RefSets(EmptyGrammar)
    /\ pc = "load"
    /\ first = EmptyDict
    /\ follow = EmptyDict
    /\ computes = 0
    /\ table = EmptyDict
    /\ ll1_conflicts = <<>>
    /\ automaton = NoAut
    /\ parser = [k \in Kinds |-> NoParser]
    /\ tokens = <<>>
    /\ run = NoRun
    /\ results = EmptyDict
    /\ earlier = <<>>

NextLoad == Load \/ NextTables

SpecLoad == InitLoad /\ [][NextLoad]_vars

\* the entries _add_action can be called with on grammar gr
Entries(gr) ==
    { Shift(j) : j \in {1, 2} }
    \cup { Reduce(q[1], norm(q[2])) : q \in ProdSet(gr) }
    \cup { Accept }

\* one call self._add_action(i, a, entry) on the SLR1Parser object; the
\* calls all go to the cell of the first one
Propose(i, a, entry) ==
    /\ pc = "cell"
    /\ Len(parser["slr1"].conflicts) < MaxConflicts
    /\ DOMAIN parser["slr1"].Action \subseteq { <<i, a>> }
    /\ LET tab == add_action(g, [Action |-> parser["slr1"].Action,
                                  conflicts |-> parser["slr1"].conflicts],
                              i, a, entry)
       IN  parser' = [parser EXCEPT !["slr1"].Action = tab.Action,
                                    !["slr1"].conflicts = tab.conflicts]
    /\ UNCHANGED <<inputVars, pc, ffVars, ll1Vars, automaton, parseVars>>

\* an SLR1Parser object whose ACTION table is still empty
InitResolve ==
    /\ gfile = NoFile
    /\ g \in AmbGrammars
    /\ order = "fwd"
    /\ method = "all"
    /\ ref = RefSets(g)
    /\ pc = "cell"
    /\ first = InitFirst(g)
    /\ follow = InitFollow(g)
    /\ computes = 0
    /\ table = EmptyDict
    /\ ll1_conflicts = <<>>
    /\ automaton = NoAut
    /\ parser = [k \in Kinds |-> NoParser]
    /\ tokens = <<>>
    /\ run = NoRun
    /\ results = EmptyDict
    /\ earlier = <<>>

NextResolve ==
    \E a \in g.terminals \cup {END}, entry \in Entries(g) : Propose(0, a, entry)

SpecResolve == InitResolve /\ [][NextResolve]_vars

----------------------------------------------------------------------------
(* State predicates used by the claims *)

FFDone == pc \notin {"first", "seed", "follow"}

LL1Built == method = "both" /\ pc \notin {"first", "seed", "follow", "ff"}

SLRBuilt == parser["slr1"].states # <<>>

\* the nodes of the subtree rooted at node n
RECURSIVE Subtree(_, _)
Subtree(nodes, n) ==
    {n} \cup UNION { Subtree(nodes, nodes[n].children[i]) :
                        i \in 1..Len(nodes[n].children) }

\* the leaves of the subtree at node n from left to right, eps leaves dropped
RECURSIVE Yield(_, _)
RECURSIVE YieldFrom(_, _, _)
Yield(nodes, n) ==
    IF nodes[n].children = <<>>
    THEN (IF nodes[n].symbol = EPS THEN <<>> ELSE << nodes[n].symbol >>)
    ELSE YieldFrom(nodes, nodes[n].children, 1)
YieldFrom(nodes, cs, k) ==
    IF k > Len(cs) THEN <<>>
    ELSE Yield(nodes, cs[k]) \o YieldFrom(nodes, cs, k + 1)

\* the nodes of a returned tree; none when the tree is None
TreeNodes(res) == IF res.tree = 0 THEN {} ELSE Subtree(res.nodes, res.tree)

\* nodes of the tree with an eps child
EpsParents(res) ==
    { n \in TreeNodes(res) :
        \E i \in 1..Len(res.nodes[n].children) :
            res.nodes[res.nodes[n].children[i]].symbol = EPS }

\* the recorded steps that applied an eps production
EpsSteps(res) ==
    { i \in 1..Len(res.derivations) : RhsSyms(res.derivations[i][2]) = <<>> }

\* no symbol of the grammar is both a terminal and a nonterminal
Disjoint == g.terminals \cap g.nonterminals = {}

----------------------------------------------------------------------------
(* Claims *)

\* C1: for a grammar whose LL(1) and SLR(1) tables were both built with an
\* empty conflict list, and a token sequence over its terminals,
\* LL1Parser.parse accepts exactly when SLR1Parser.parse accepts.
C1_CrossEngineAgreement ==
    (ConflictFree /\ Has(results, "ll1") /\ Has(results, "slr1")) =>
        (results["ll1"].ok <=> results["slr1"].ok)

\* the agreement of C1 on the grammars without a symbol in both sets
C1_AgreementOnDisjoint == Disjoint => C1_CrossEngineAgreement

\* both engines have returned on a conflict-free grammar with a nullable
\* nonterminal and recursion through A, and both accepted an input of the
\* longest length
C1_Witness ==
    /\ ConflictFree /\ Has(results, "ll1") /\ Has(results, "slr1")
    /\ results["ll1"].ok /\ results["slr1"].ok
    /\ Len(tokens) = MaxLen
    /\ ref.nullable # {}
    /\ \E p \in ProdSet(g) : p[1] = "A" /\ p[2] = <<"a", "S">>

\* the E' nodes of a returned tree whose first child is the '+' leaf
PlusNodes(res) ==
    { n \in TreeNodes(res) :
        /\ res.nodes[n].symbol = "E'"
        /\ res.nodes[n].children # <<>>
        /\ res.nodes[res.nodes[n].children[1]].symbol = "+" }

\* C2: on the expression grammar the input id + id * id is accepted by
\* LL1Parser.parse and SLR1Parser.parse, neither table has a conflict, and
\* in both trees the T node after the '+' leaf has the yield id * id.
C2_Scenario1 ==
    (g = G_expr /\ tokens = IdPlusIdTimesId
        /\ Has(results, "ll1") /\ Has(results, "slr1")) =>
        /\ ConflictFree
        /\ \A k \in {"ll1", "slr1"} :
            /\ results[k].ok
            /\ results[k].tree # 0
            /\ Yield(results[k].nodes, results[k].tree) = IdPlusIdTimesId
            /\ Cardinality(PlusNodes(results[k])) = 1
            /\ \A n \in PlusNodes(results[k]) :
                LET c == results[k].nodes[n].children IN
                /\ Len(c) = 3
                /\ results[k].nodes[c[2]].symbol = "T"
                /\ Yield(results[k].nodes, c[2]) = <<"id", "*", "id">>

\* both engines have returned on id + id * id
C2_Witness ==
    /\ g = G_expr /\ tokens = IdPlusIdTimesId
    /\ Has(results, "ll1") /\ Has(results, "slr1")
    /\ PlusNodes(results["ll1"]) # {} /\ PlusNodes(results["slr1"]) # {}

\* the shift-reduce loop of engine k is at a (state, lookahead) pair for
\* which ACTION has no entry
MissingAction(k) ==
    /\ pc = "parse_" \o k
    /\ run.running
    /\ ~Has(parser[k].Action, <<Last(run.states), Head(run.input_stream)>>)

\* C3: in SLR1Parser.parse and LR1Parser.parse, when ACTION has no entry for
\* the state on top and the lookahead, the call returns at once with
\* ok = false, tree None and the reductions made so far as derivations; on
\* the expression grammar the input id + * id is rejected by SLR(1) through
\* this branch.
C3_MissingActionRejects ==
    /\ [][\A k \in Kinds : MissingAction(k) =>
            /\ ~run'.running
            /\ Has(results', k)
            /\ results'[k].ok = FALSE
            /\ results'[k].tree = 0
            /\ results'[k].derivations = run.steps
            /\ results'[k].trace = "error: no ACTION"]_vars
    /\ []((g = G_expr /\ tokens = IdPlusTimesId /\ Has(results, "slr1")) =>
            /\ results["slr1"].ok = FALSE
            /\ results["slr1"].trace = "error: no ACTION")

\* SLR(1), LALR(1) and LR(1) have all rejected id + * id at a missing
\* ACTION entry after three reductions
C3_Witness ==
    /\ g = G_expr /\ tokens = IdPlusTimesId
    /\ \A k \in Kinds :
        /\ Has(results, k)
        /\ results[k].trace = "error: no ACTION"
        /\ results[k].derivations =
            << <<"F", <<"id">> >>, <<"T'", <<>> >>, <<"T", <<"F", "T'">> >> >>

\* C4: in the tree of an accepting parse of any engine, a node made by an
\* eps production has exactly one child, an eps leaf without children, and
\* no node labelled with a nonterminal has zero children.
C4_EpsSubtreesWellFormed ==
    \A k \in DOMAIN results :
        results[k].ok =>
            LET res == results[k] IN
            /\ res.tree # 0
            /\ \A n \in TreeNodes(res) :
                /\ res.nodes[n].symbol = EPS => res.nodes[n].children = <<>>
                /\ res.nodes[n].symbol \in g.nonterminals =>
                        res.nodes[n].children # <<>>
                /\ n \in EpsParents(res) => Len(res.nodes[n].children) = 1
            /\ Cardinality(EpsParents(res)) = Cardinality(EpsSteps(res))

\* the tree shape of C4 on the grammars without a symbol in both sets
C4_WellFormedOnDisjoint == Disjoint => C4_EpsSubtreesWellFormed

\* LL(1) and SLR(1) both accepted with eps nodes in their trees
C4_Witness ==
    \A k \in {"ll1", "slr1"} :
        /\ Has(results, k) /\ results[k].ok
        /\ Cardinality(EpsParents(results[k])) >= 2

IfThen == <<"if", "E", "then", "Stmt">>
IfThenElse == <<"if", "E", "then", "Stmt", "else", "Stmt">>

\* C5: on the dangling-else grammar without precedence, SLR1Parser
\* construction completes and logs a conflict on lookahead 'else' between a
\* shift and the reduce of Stmt -> if E then Stmt.
C5_Scenario2a ==
    (g = G_else /\ pc \notin {"first", "seed", "follow", "ff", "ll1", "lr0", "slr_tab"}) =>
        /\ SLRBuilt
        /\ \E i \in 1..Len(parser["slr1"].conflicts) :
            LET c == parser["slr1"].conflicts[i] IN
            /\ c.symbol = "else"
            /\ \/ c.prev.kind = "s" /\ c.new = Reduce("Stmt", IfThen)
               \/ c.new.kind = "s" /\ c.prev = Reduce("Stmt", IfThen)

\* the SLR(1) tables of the dangling-else grammar are built, with a conflict
\* that was not resolved
C5_Witness ==
    /\ g = G_else /\ SLRBuilt
    /\ \E i \in 1..Len(parser["slr1"].conflicts) :
        ~parser["slr1"].conflicts[i].resolved

\* the states holding the item Stmt -> if E then Stmt . else Stmt
ElseStates ==
    { i \in 0..(Len(parser["slr1"].states) - 1) :
        <<"Stmt", IfThenElse, 4>> \in parser["slr1"].states[i + 1] }

\* C6: on the dangling-else grammar with a precedence group for 'else' and
\* none for 'then', ACTION at the else-handling state on 'else' is a shift,
\* no unresolved conflict is logged for that cell, and the nested input is
\* accepted by SLR1Parser.parse with the 'else' leaf under the inner Stmt.
C6_Scenario2b ==
    (g.productions = ElseProds /\ Has(g.precedence, "else") /\ SLRBuilt) =>
        /\ ElseStates # {}
        /\ \A i \in ElseStates :
            /\ Has(parser["slr1"].Action, <<i, "else">>)
            /\ parser["slr1"].Action[<<i, "else">>].kind = "s"
            /\ \A n \in 1..Len(parser["slr1"].conflicts) :
                LET c == parser["slr1"].conflicts[n] IN
                (c.state = i /\ c.symbol = "else") => c.resolved
        /\ (tokens = NestedIfElse /\ Has(results, "slr1")) =>
            LET res == results["slr1"] IN
            /\ res.ok
            /\ res.tree # 0
            /\ LET outer == res.nodes[res.tree].children IN
                /\ Len(outer) = 4
                /\ res.nodes[outer[4]].symbol = "Stmt"
                /\ LET inner == res.nodes[outer[4]].children IN
                    /\ Len(inner) = 6
                    /\ res.nodes[inner[5]].symbol = "else"
                    /\ res.nodes[inner[5]].children = <<>>

\* SLR(1) has returned on the nested input under a %Left declaration of
\* 'else', after a conflict on 'else' was resolved
C6_Witness ==
    /\ g = G_else_prec("left") /\ tokens = NestedIfElse
    /\ Has(results, "slr1")
    /\ \E n \in 1..Len(parser["slr1"].conflicts) :
        parser["slr1"].conflicts[n].symbol = "else"
            /\ parser["slr1"].conflicts[n].resolved

\* C7: after FirstFollow construction first[t] = {t} for every terminal t;
\* for every nonterminal A, eps is in first[A] iff A derives the empty
\* string, and first[A] minus eps is exactly the set of terminals that begin
\* some string derivable from A.
C7_FirstCorrect ==
    FFDone =>
        /\ \A t \in g.terminals : first[t] = {t}
        /\ \A A \in g.nonterminals :
            /\ (EPS \in first[A]) <=> (A \in ref.nullable)
            /\ first[A] \ {EPS} = LeadTerminals(g, ref.nullable, <<A>>)

\* the FIRST sets of C7 on the grammars without a symbol in both sets
C7_FirstCorrectOnDisjoint == Disjoint => C7_FirstCorrect

\* a constructed FirstFollow with a nullable nonterminal that also starts
\* with a terminal, a non-nullable nonterminal, and a production whose
\* second symbol contributes to FIRST past a nullable first symbol
C7_Witness ==
    /\ FFDone
    /\ \E A \in g.nonterminals : EPS \in first[A] /\ first[A] \ {EPS} # {}
    /\ \E p \in ProdSet(g) :
        /\ Len(p[2]) = 2 /\ EPS \in first[p[2][1]] /\ EPS \notin first[p[1]]
        /\ ~ (first[p[2][2]] \subseteq first[p[2][1]])
        /\ first[p[2][2]] \subseteq first[p[1]]

\* C8: one more compute() on a constructed FirstFollow leaves every first[X]
\* and every follow[A] unchanged.
C8_ComputeIdempotent ==
    [][(computes >= 1 /\ computes' = computes + 1)
        => (first' = first /\ follow' = follow)]_vars

\* a second compute() has run on an object whose sets are not trivial
C8_Witness ==
    /\ computes = 2
    /\ \E A \in g.nonterminals : Cardinality(first[A]) >= 2 /\ Cardinality(follow[A]) >= 2

\* C9: after construction END is in follow[start]; for every production
\* A -> alpha B beta with B a nonterminal, FIRST(beta) minus eps is inside
\* follow[B], and follow[A] is inside follow[B] when beta is empty or
\* nullable; and the follow sets are the least sets closed under these rules.
C9_FollowCorrect ==
    FFDone =>
        LET N == ref.nullable
            RF == ref.first
        IN
        /\ END \in follow[g.start_symbol]
        /\ \A p \in ProdSet(g) : \A i \in 1..Len(RhsSyms(p[2])) :
            LET B == RhsSyms(p[2])[i]
                beta == SubSeq(RhsSyms(p[2]), i + 1, Len(RhsSyms(p[2])))
            IN  B \in g.nonterminals =>
                /\ (RefFirstSeq(RF, beta) \ {EPS}) \subseteq follow[B]
                /\ SeqNullable(N, beta) => follow[p[1]] \subseteq follow[B]
        /\ follow = ref.follow

\* a constructed FirstFollow where a follow set was inherited through a
\* nullable, non-empty beta that also contributed FIRST(beta)
C9_Witness ==
    /\ FFDone
    /\ \E p \in ProdSet(g) : \E i \in 1..Len(RhsSyms(p[2])) :
        LET B == RhsSyms(p[2])[i]
            beta == SubSeq(RhsSyms(p[2]), i + 1, Len(RhsSyms(p[2])))
        IN  /\ B \in g.nonterminals /\ B # p[1]
            /\ beta # <<>> /\ SeqNullable(ref.nullable, beta)
            /\ first_of_seq(first, beta) \ {EPS} # {}
            /\ follow[p[1]] # {}
            /\ follow[B] # follow[p[1]]

\* the condition under which production A -> alpha belongs in cell (A, a)
LL1Cond(RF, RFol, A, alpha, a) ==
    \/ a \in RefFirstSeq(RF, RhsSyms(alpha)) \ {EPS}
    \/ EPS \in RefFirstSeq(RF, RhsSyms(alpha)) /\ a \in RFol[A]

\* C10: after LL1Parser construction a cell table[A][a] is filled iff some
\* production A -> alpha has a in FIRST(alpha) minus eps, or eps in
\* FIRST(alpha) and a in FOLLOW(A); the stored production is such a one.
C10_LL1TablePopulation ==
    LL1Built =>
        LET RF == ref.first
            RFol == ref.follow
        IN
        /\ \A A \in g.nonterminals : \A a \in g.terminals \cup {END} :
            Has(table, <<A, a>>) <=>
                \E p \in ProdSet(g) : p[1] = A /\ LL1Cond(RF, RFol, A, p[2], a)
        /\ \A k \in DOMAIN table :
            /\ k[1] \in g.nonterminals /\ k[2] \in g.terminals \cup {END}
            /\ <<k[1], table[k]>> \in ProdSet(g)
            /\ LL1Cond(RF, RFol, k[1], table[k], k[2])

\* a built table with a cell filled through FIRST and one through FOLLOW of
\* a production that is nullable without being the eps production
C10_Witness ==
    /\ LL1Built
    /\ \E k \in DOMAIN table : table[k] # <<EPS>> /\ k[2] \in first_of_seq(first, table[k])
    /\ \E k \in DOMAIN table :
        /\ table[k] # <<EPS>>
        /\ k[2] \notin first_of_seq(first, table[k])
        /\ k[2] \in follow[k[1]]

\* the productions of A that are candidates for cell (A, a), in the order
\* _build_table visits them
LL1Candidates(A, a) ==
    SelectSeq(ProdList(g),
        LAMBDA p : /\ p[1] = A
                   /\ \/ a \in first_of_seq(first, p[2]) \ {EPS}
                      \/ EPS \in first_of_seq(first, p[2]) /\ a \in follow[A])

\* cells with two different candidate productions
LL1ConflictCells ==
    { k \in g.nonterminals \X (g.terminals \cup {END}) :
        \E n \in 1..Len(LL1Candidates(k[1], k[2])) :
            LL1Candidates(k[1], k[2])[n] # LL1Candidates(k[1], k[2])[1] }

\* C11: when two different productions of A are candidates for cell (A, a),
\* table[A][a] is the candidate written first, in declaration order, and
\* LL1Parser.conflicts holds an entry for (A, a) with both candidates.
C11_LL1KeepsFirstWriter ==
    LL1Built =>
        \A k \in LL1ConflictCells :
            LET c == LL1Candidates(k[1], k[2]) IN
            /\ Has(table, k)
            /\ table[k] = c[1][2]
            /\ \E n \in 1..Len(ll1_conflicts) :
                /\ ll1_conflicts[n][1] = k[1] /\ ll1_conflicts[n][2] = k[2]
                /\ ll1_conflicts[n][3] = c[1][2]
                /\ ll1_conflicts[n][4] # c[1][2]

\* the logging half of C11: every cell with two different candidates has an
\* entry naming the first candidate and a later, different one
C11_BothCandidatesLogged ==
    LL1Built =>
        \A k \in LL1ConflictCells :
            \E n \in 1..Len(ll1_conflicts) :
                /\ ll1_conflicts[n][1] = k[1] /\ ll1_conflicts[n][2] = k[2]
                /\ ll1_conflicts[n][3] = LL1Candidates(k[1], k[2])[1][2]
                /\ ll1_conflicts[n][4] # ll1_conflicts[n][3]
                /\ \E m \in 1..Len(LL1Candidates(k[1], k[2])) :
                    LL1Candidates(k[1], k[2])[m][2] = ll1_conflicts[n][4]

\* what line 244 does: a cell with a conflict holds its last candidate
C11_TableKeepsLastWriter ==
    LL1Built =>
        \A k \in LL1ConflictCells :
            LET c == LL1Candidates(k[1], k[2]) IN
            Has(table, k) /\ table[k] = c[Len(c)][2]

\* a built table with a conflict between two different productions
C11_Witness ==
    LL1Built /\ LL1ConflictCells # {} /\ ll1_conflicts # <<>>

----------------------------------------------------------------------------
(* The actions the construction rules propose for a cell, read off the     *)
(* states and transitions of the built parser of kind k                    *)

TablesBuilt(k) == parser[k].states # <<>>

StateIds(k) == 0..(Len(parser[k].states) - 1)

Cells(k) == StateIds(k) \X (g.terminals \cup {END})

\* items of state i with the dot at the end, the augmented one left out
CompleteItems(k, i) ==
    { it \in parser[k].states[i + 1] :
        DotAtEnd(it) /\ it[1] # aug_start(g) }

HasAugComplete(k, i) ==
    \E it \in parser[k].states[i + 1] : DotAtEnd(it) /\ it[1] = aug_start(g)

\* items of state i with the dot right before symbol a
DotBefore(k, i, a) ==
    { it \in parser[k].states[i + 1] : ~DotAtEnd(it) /\ AfterDot(it) = a }

ShiftCands(k, c) ==
    IF DotBefore(k, c[1], c[2]) # {} /\ Has(parser[k].transitions, c)
    THEN { Shift(parser[k].transitions[c]) } ELSE {}

\* SLR(1): under FOLLOW of the left-hand side; LR(1), LALR(1): under the
\* lookahead of the item
ReduceCands(k, c) ==
    { Reduce(it[1], it[2]) :
        it \in { x \in CompleteItems(k, c[1]) :
                    IF k = "slr1" THEN c[2] \in follow[x[1]] ELSE x[4] = c[2] } }

AcceptCands(k, c) ==
    IF c[2] = END /\ HasAugComplete(k, c[1]) THEN { Accept } ELSE {}

Cands(k, c) == ShiftCands(k, c) \cup ReduceCands(k, c) \cup AcceptCands(k, c)

\* the conflict entries logged for cell c, in order
CellLog(k, c) ==
    SelectSeq(parser[k].conflicts, LAMBDA e : e.state = c[1] /\ e.symbol = c[2])

\* the content of cell c right after the m-th entry of its log was appended
HeldAfter(k, c, m) ==
    IF m < Len(CellLog(k, c)) THEN CellLog(k, c)[m + 1].prev
    ELSE parser[k].Action[c]

\* C12: construction of SLR1Parser and LR1Parser (both modes) ends with all
\* three tables built, and a conflict stops nothing: every cell for which
\* the rules propose an action is filled, in the states after a conflict
\* too; every second, different action proposed for a cell is logged with
\* state, symbol and both candidates; after an unresolved conflict the cell
\* still holds the action it held before; every cell holds one action, a
\* proposed one or the error entry.
C12_ConflictsKeptAndLogged ==
    /\ pc = "ready" => \A k \in Kinds : TablesBuilt(k)
    /\ \A k \in Kinds : TablesBuilt(k) =>
        /\ DOMAIN parser[k].Action = { c \in Cells(k) : Cands(k, c) # {} }
        /\ \A n \in 1..Len(parser[k].conflicts) :
            <<parser[k].conflicts[n].state, parser[k].conflicts[n].symbol>>
                \in DOMAIN parser[k].Action
        /\ \A c \in DOMAIN parser[k].Action :
            LET L == CellLog(k, c) IN
            /\ parser[k].Action[c] \in Cands(k, c) \cup {ErrEntry}
            /\ Len(L) = Cardinality(Cands(k, c)) - 1
            /\ { L[m].new : m \in 1..Len(L) } \subseteq Cands(k, c)
            /\ Cardinality({ L[m].new : m \in 1..Len(L) }) = Len(L)
            /\ \A m \in 1..Len(L) :
                /\ L[m].prev # L[m].new
                /\ L[m].prev \in Cands(k, c) \cup {ErrEntry}
                /\ ~L[m].resolved => HeldAfter(k, c, m) = L[m].prev

\* all three tables are built, each with an unresolved conflict, and one
\* cell of the SLR(1) table saw two conflicts
C12_Witness ==
    /\ pc = "ready"
    /\ \A k \in Kinds : \E n \in 1..Len(parser[k].conflicts) :
            parser[k].conflicts[n].state < Len(parser[k].states) - 1
    /\ \A k \in Kinds : \E n \in 1..Len(parser[k].conflicts) :
            ~parser[k].conflicts[n].resolved
    /\ \E c \in DOMAIN parser["slr1"].Action : Len(CellLog("slr1", c)) >= 2

----------------------------------------------------------------------------
(* Precedence as the resolution rules state it *)

\* the positions of the terminals in a right-hand side
TerminalPositions(alpha) == { n \in 1..Len(alpha) : alpha[n] \in g.terminals }

\* prec(p) is defined: p has a terminal and the rightmost one has a level
ProdPrecDefined(prod) ==
    /\ TerminalPositions(prod[2]) # {}
    /\ prod[2][CHOOSE n \in TerminalPositions(prod[2]) :
                    \A m \in TerminalPositions(prod[2]) : m <= n]
            \in DOMAIN g.precedence

\* prec(p): the level of the rightmost terminal of p
ProdPrec(prod) ==
    g.precedence[prod[2][CHOOSE n \in TerminalPositions(prod[2]) :
                            \A m \in TerminalPositions(prod[2]) : m <= n]]

TermPrecDefined(a) == a \in DOMAIN g.precedence

\* log entries in which a shift and a reduce compete
IsShiftReduce(e) == {e.prev.kind, e.new.kind} = {"s", "r"}

ShiftOf(e) == IF e.prev.kind = "s" THEN e.prev ELSE e.new

ReduceOf(e) == IF e.prev.kind = "r" THEN e.prev ELSE e.new

\* the conflict of entry e was resolved in favour of action x
ResolvedTo(k, c, m, x) ==
    /\ CellLog(k, c)[m].resolved
    /\ CellLog(k, c)[m].result = x
    /\ HeldAfter(k, c, m) = x

\* the conflict of entry e stayed unresolved, the cell keeping its action
Unresolved(k, c, m) ==
    /\ ~CellLog(k, c)[m].resolved
    /\ HeldAfter(k, c, m) = CellLog(k, c)[m].prev

\* C13: when a shift on a and a reduce by p compete for a cell: with both
\* prec(a) and prec(p) defined and different the higher one wins; with only
\* prec(a) defined the shift wins; with only prec(p) defined the reduce
\* wins; with neither defined the conflict is unresolved; whichever of the
\* two actions was in the cell first.
C13_ShiftReduceByPrecedence ==
    \A c \in DOMAIN parser["slr1"].Action :
        \A m \in 1..Len(CellLog("slr1", c)) :
            LET e == CellLog("slr1", c)[m]
                la == TermPrecDefined(c[2])
                pp == ProdPrecDefined(ReduceOf(e).prod)
            IN  IsShiftReduce(e) =>
                /\ (la /\ pp /\ g.precedence[c[2]] > ProdPrec(ReduceOf(e).prod))
                        => ResolvedTo("slr1", c, m, ShiftOf(e))
                /\ (la /\ pp /\ g.precedence[c[2]] < ProdPrec(ReduceOf(e).prod))
                        => ResolvedTo("slr1", c, m, ReduceOf(e))
                /\ (la /\ ~pp) => ResolvedTo("slr1", c, m, ShiftOf(e))
                /\ (~la /\ pp) => ResolvedTo("slr1", c, m, ReduceOf(e))
                /\ (~la /\ ~pp) => Unresolved("slr1", c, m)

\* one cell saw the same shift and reduce compete in both orders, with
\* different levels on the two sides, and the shift won both times
C13_Witness ==
    \E c \in DOMAIN parser["slr1"].Action :
        LET L == CellLog("slr1", c) IN
        /\ Len(L) = 2
        /\ L[1].prev.kind = "r" /\ L[1].new.kind = "s"
        /\ L[2].prev = L[1].new /\ L[2].new = L[1].prev
        /\ TermPrecDefined(c[2]) /\ ProdPrecDefined(L[1].prev.prod)
        /\ g.precedence[c[2]] > ProdPrec(L[1].prev.prod)
        /\ parser["slr1"].Action[c] = L[1].new

\* log entries in which two different reduces compete
IsReduceReduce(e) == e.prev.kind = "r" /\ e.new.kind = "r"

\* production p has strictly higher precedence than q; a production
\* without precedence ranks below every declared level
HigherPrec(p, q) ==
    /\ ProdPrecDefined(p)
    /\ ProdPrecDefined(q) => ProdPrec(p) > ProdPrec(q)

\* C15: when two different reduces compete for a cell, the one whose
\* production has strictly higher precedence is kept; with equal precedence
\* or no precedence on either production the conflict is unresolved, the
\* reduce that was in the cell stays there, and the conflict is in the log.
C15_ReduceReduceByPrecedence ==
    \A c \in DOMAIN parser["slr1"].Action :
        \A m \in 1..Len(CellLog("slr1", c)) :
            LET e == CellLog("slr1", c)[m] IN
            IsReduceReduce(e) =>
                /\ e.prev # e.new
                /\ HigherPrec(e.prev.prod, e.new.prod)
                        => ResolvedTo("slr1", c, m, e.prev)
                /\ HigherPrec(e.new.prod, e.prev.prod)
                        => ResolvedTo("slr1", c, m, e.new)
                /\ (~HigherPrec(e.prev.prod, e.new.prod)
                        /\ ~HigherPrec(e.new.prod, e.prev.prod))
                        => Unresolved("slr1", c, m)

\* one cell saw a reduce replaced by a reduce of a higher declared level,
\* and then kept the higher one when the lower one was proposed again
C15_Witness ==
    \E c \in DOMAIN parser["slr1"].Action :
        LET L == CellLog("slr1", c) IN
        /\ Len(L) = 2
        /\ IsReduceReduce(L[1]) /\ IsReduceReduce(L[2])
        /\ ProdPrecDefined(L[1].prev.prod) /\ ProdPrecDefined(L[1].new.prod)
        /\ ProdPrec(L[1].new.prod) > ProdPrec(L[1].prev.prod)
        /\ L[2].prev = L[1].new /\ L[2].new = L[1].prev
        /\ parser["slr1"].Action[c] = L[1].new

\* C16: in the SLR(1) table a Reduce(A -> alpha) in ACTION[i, a] implies
\* that state i holds the complete item of A -> alpha and a is in FOLLOW(A);
\* and for every state i with a complete item of A -> alpha, A not the
\* augmented start, and every a in FOLLOW(A), cell (i, a) is filled,
\* Reduce(A -> alpha) was proposed for it, and it is the entry when no other
\* action competes for the cell.
C16_SLRReducePlacement ==
    TablesBuilt("slr1") =>
        /\ \A c \in DOMAIN parser["slr1"].Action :
            LET act == parser["slr1"].Action[c] IN
            act.kind = "r" =>
                /\ <<act.prod[1], act.prod[2], Len(act.prod[2])>>
                        \in parser["slr1"].states[c[1] + 1]
                /\ act.prod[1] # aug_start(g)
                /\ c[2] \in ref.follow[act.prod[1]]
        /\ \A i \in StateIds("slr1") : \A it \in CompleteItems("slr1", i) :
            \A a \in ref.follow[it[1]] :
                LET c == <<i, a>>
                    L == CellLog("slr1", c)
                    red == Reduce(it[1], it[2])
                IN
                /\ Has(parser["slr1"].Action, c)
                /\ \/ parser["slr1"].Action[c] = red
                   \/ \E m \in 1..Len(L) : L[m].prev = red \/ L[m].new = red
                /\ Cands("slr1", c) = {red} => parser["slr1"].Action[c] = red

\* a built SLR(1) table with a reduce of a production that is not empty
\* entered under two terminals, one of them END, and a reduce that lost
\* its cell to another action
C16_Witness ==
    /\ TablesBuilt("slr1")
    /\ \E i \in StateIds("slr1") : \E it \in CompleteItems("slr1", i) :
        /\ it[2] # <<>>
        /\ Cardinality(ref.follow[it[1]]) >= 2
        /\ \A a \in ref.follow[it[1]] :
            parser["slr1"].Action[<<i, a>>] = Reduce(it[1], it[2])
    /\ \E i \in StateIds("slr1") : \E it \in CompleteItems("slr1", i) :
        \E a \in ref.follow[it[1]] :
            parser["slr1"].Action[<<i, a>>] # Reduce(it[1], it[2])

\* the lookaheads that the complete items of A -> alpha carry in state i
Lookaheads(k, i, A, alpha) ==
    { it[4] : it \in { x \in CompleteItems(k, i) : x[1] = A /\ x[2] = alpha } }

\* C17: in the tables built by LR1Parser, mode lr1 and mode lalr1,
\* ACTION[i, a] = Reduce(A -> alpha) only if state i holds the complete
\* item (A -> alpha ., a); a terminal of FOLLOW(A) that is no lookahead of
\* that item in state i gets no reduce by A -> alpha there.
C17_LR1ReducePlacement ==
    \A k \in {"lr1", "lalr1"} : TablesBuilt(k) =>
        /\ \A c \in DOMAIN parser[k].Action :
            LET act == parser[k].Action[c] IN
            act.kind = "r" =>
                <<act.prod[1], act.prod[2], Len(act.prod[2]), c[2]>>
                    \in parser[k].states[c[1] + 1]
        /\ \A i \in StateIds(k) : \A it \in CompleteItems(k, i) :
            \A a \in ref.follow[it[1]] \ Lookaheads(k, i, it[1], it[2]) :
                /\ Has(parser[k].Action, <<i, a>>)
                        => parser[k].Action[<<i, a>>] # Reduce(it[1], it[2])
                /\ \A n \in 1..Len(parser[k].conflicts) :
                    (parser[k].conflicts[n].state = i
                        /\ parser[k].conflicts[n].symbol = a)
                    => /\ parser[k].conflicts[n].prev # Reduce(it[1], it[2])
                       /\ parser[k].conflicts[n].new # Reduce(it[1], it[2])

\* both tables are built and each has a state whose complete item carries
\* one lookahead, under which the reduce is entered, while FOLLOW of its
\* left-hand side holds another terminal, whose cell holds no action
C17_Witness ==
    \A k \in {"lr1", "lalr1"} :
        /\ TablesBuilt(k)
        /\ \E i \in StateIds(k) : \E it \in CompleteItems(k, i) :
            /\ parser[k].Action[<<i, it[4]>>] = Reduce(it[1], it[2])
            /\ \E a \in ref.follow[it[1]] \ Lookaheads(k, i, it[1], it[2]) :
                ~Has(parser[k].Action, <<i, a>>)

\* C18: after construction of SLR1Parser and LR1Parser, for every state i
\* holding the complete item of the augmented production, ACTION[i, $] is
\* Accept; and Accept is in no other cell.
C18_AcceptPlacement ==
    \A k \in Kinds : TablesBuilt(k) =>
        /\ \A i \in StateIds(k) : HasAugComplete(k, i) =>
            /\ Has(parser[k].Action, <<i, END>>)
            /\ parser[k].Action[<<i, END>>] = Accept
        /\ \A c \in DOMAIN parser[k].Action :
            parser[k].Action[c] = Accept =>
                c[2] = END /\ HasAugComplete(k, c[1])

\* the second half of C18: Accept is in no cell other than (a state with
\* the complete augmented item, $)
C18_AcceptOnlyThere ==
    \A k \in Kinds : TablesBuilt(k) =>
        \A c \in DOMAIN parser[k].Action :
            parser[k].Action[c] = Accept =>
                c[2] = END /\ HasAugComplete(k, c[1])

\* the first half of C18 where nothing competes with Accept for its cell
C18_AcceptWhenAlone ==
    \A k \in Kinds : TablesBuilt(k) =>
        \A i \in StateIds(k) :
            (HasAugComplete(k, i) /\ Cands(k, <<i, END>>) = {Accept}) =>
                parser[k].Action[<<i, END>>] = Accept

\* all three tables are built and each holds Accept
C18_Witness ==
    \A k \in Kinds :
        /\ TablesBuilt(k)
        /\ \E c \in DOMAIN parser[k].Action : parser[k].Action[c] = Accept

\* C19: every Shift(j) in ACTION[i, a] has j = transitions[(i, a)], a a
\* terminal and an item of state i with its dot right before a; and for
\* every state i and terminal a with such an item, cell (i, a) is filled,
\* Shift(transitions[(i, a)]) was proposed for it, and it is the entry when
\* no reduce competes for the cell.
C19_ShiftPlacement ==
    \A k \in Kinds : TablesBuilt(k) =>
        /\ \A c \in DOMAIN parser[k].Action :
            LET act == parser[k].Action[c] IN
            act.kind = "s" =>
                /\ c[2] \in g.terminals
                /\ DotBefore(k, c[1], c[2]) # {}
                /\ Has(parser[k].transitions, c)
                /\ act.j = parser[k].transitions[c]
        /\ \A i \in StateIds(k) : \A a \in g.terminals :
            DotBefore(k, i, a) # {} =>
                LET c == <<i, a>>
                    L == CellLog(k, c)
                IN
                /\ Has(parser[k].transitions, c)
                /\ Has(parser[k].Action, c)
                /\ \/ parser[k].Action[c] = Shift(parser[k].transitions[c])
                   \/ \E m \in 1..Len(L) :
                        L[m].prev = Shift(parser[k].transitions[c])
                /\ ReduceCands(k, c) = {} =>
                        parser[k].Action[c] = Shift(parser[k].transitions[c])

\* all three tables are built, each with a shift to a state other than the
\* one it is entered in, and a shift that lost its cell to a reduce in the
\* SLR(1) table
C19_Witness ==
    /\ \A k \in Kinds :
        /\ TablesBuilt(k)
        /\ \E c \in DOMAIN parser[k].Action :
            parser[k].Action[c].kind = "s" /\ parser[k].Action[c].j # c[1]
    /\ \E c \in DOMAIN parser["slr1"].Action :
        /\ DotBefore("slr1", c[1], c[2]) # {}
        /\ parser["slr1"].Action[c].kind = "r"

\* the ACTION cell the running parse of kind k looks up next
CurrentCell == <<Last(run.states), Head(run.input_stream)>>

\* the parse of kind k is about to look up an error cell
AtErrorCell(k) ==
    /\ pc = "parse_" \o k
    /\ run.running
    /\ Has(parser[k].Action, CurrentCell)
    /\ parser[k].Action[CurrentCell] = ErrEntry

\* shift on a against reduce by p with prec(a) = prec(p), in entry m of the
\* log of cell c
EqualPrec(k, c, m) ==
    /\ IsShiftReduce(CellLog(k, c)[m])
    /\ TermPrecDefined(c[2])
    /\ ProdPrecDefined(ReduceOf(CellLog(k, c)[m]).prod)
    /\ g.precedence[c[2]] = ProdPrec(ReduceOf(CellLog(k, c)[m]).prod)

C14_TablePart ==
    \A k \in Kinds : TablesBuilt(k) =>
        \A c \in DOMAIN parser[k].Action :
            \A m \in 1..Len(CellLog(k, c)) :
                EqualPrec(k, c, m) =>
                    /\ g.assoc[c[2]] = "left"
                            => ResolvedTo(k, c, m, ReduceOf(CellLog(k, c)[m]))
                    /\ g.assoc[c[2]] = "right"
                            => ResolvedTo(k, c, m, ShiftOf(CellLog(k, c)[m]))
                    /\ g.assoc[c[2]] = "nonassoc"
                            => /\ ResolvedTo(k, c, m, ErrEntry)
                               /\ parser[k].Action[c] = ErrEntry

C14_ParsePart ==
    \A k \in Kinds :
        AtErrorCell(k) =>
            /\ ~run'.running
            /\ Has(results', k)
            /\ results'[k].ok = FALSE

\* C14: when a shift on a and a reduce by p compete and prec(a) = prec(p),
\* a %Left a leaves the reduce in the cell, a %Right a the shift, and a
\* %NonAssoc a the error entry; a parse whose current state and lookahead
\* name an error cell returns with ok = false in its next step.
C14_EqualPrecedence == [](C14_TablePart) /\ [][C14_ParsePart]_vars

\* with + declared %NonAssoc, all three parses of  id + id + id  ended at
\* the error cell and returned ok = false
C14_Witness ==
    /\ g.productions = AmbProds
    /\ g.assoc["+"] = "nonassoc"
    /\ tokens = IdPlusIdPlusId
    /\ pc = "done"
    /\ \A k \in Kinds :
        /\ results[k].ok = FALSE
        /\ results[k].trace = "error: unknown ACTION kind"
        /\ \E c \in DOMAIN parser[k].Action :
            /\ parser[k].Action[c] = ErrEntry
            /\ EqualPrec(k, c, 1)

\* a table action with the numbers of the states left out: a shift by the
\* core of its target, a reduce by its production
ActKey(k, act) ==
    IF act.kind = "s"
    THEN [kind |-> "s", core |-> Core(parser[k].states[act.j + 1])]
    ELSE act

\* entry e of the LALR(1) log has a counterpart in the LR(1) log: a state
\* with the same core, the same symbol, the same two competing actions
LoggedByLR1(e) ==
    \E m \in 1..Len(parser["lr1"].conflicts) :
        LET f == parser["lr1"].conflicts[m] IN
        /\ Core(parser["lr1"].states[f.state + 1])
                = Core(parser["lalr1"].states[e.state + 1])
        /\ f.symbol = e.symbol
        /\ {ActKey("lr1", f.prev), ActKey("lr1", f.new)}
                = {ActKey("lalr1", e.prev), ActKey("lalr1", e.new)}

\* LR1Parser(mode='lalr1') logged no conflict beyond those of mode='lr1'
NoConflictBeyondLR1 ==
    \A n \in 1..Len(parser["lalr1"].conflicts) :
        LoggedByLR1(parser["lalr1"].conflicts[n])

\* both LR1Parser objects have parsed the token sequence
BothParsed == pc = "done" /\ Has(results, "lr1") /\ Has(results, "lalr1")

\* C20: for a grammar on which LR1Parser(mode='lalr1') logs no conflicts
\* beyond those logged by LR1Parser(mode='lr1'), every token sequence that
\* the canonical LR(1) parser accepts is accepted by the LALR(1) parser.
C20_LR1AcceptedByLALR ==
    (NoConflictBeyondLR1 /\ BothParsed /\ results["lr1"].ok)
        => results["lalr1"].ok

\* C20 on the grammars where every conflict in both logs was resolved by
\* precedence
C20_HoldsWhenResolved ==
    (/\ \A n \in 1..Len(parser["lalr1"].conflicts) :
            parser["lalr1"].conflicts[n].resolved
     /\ \A n \in 1..Len(parser["lr1"].conflicts) :
            parser["lr1"].conflicts[n].resolved
     /\ NoConflictBeyondLR1 /\ BothParsed /\ results["lr1"].ok)
        => results["lalr1"].ok

----------------------------------------------------------------------------
(* Loading a grammar file *)

\* the symbols on the right-hand sides of the file's production lines
FileRhsSymbols(f) ==
    UNION { UNION { { f.lines[n].alts[i][m] : m \in 1..Len(f.lines[n].alts[i]) } :
                    i \in 1..Len(f.lines[n].alts) } :
            n \in 1..Len(f.lines) } \ {EPS}

\* what the file declares: the %Terminals and %NonTerminals payloads, the
\* tokens of the precedence lines, the left-hand sides of the production lines
FileDeclared(f) ==
    f.terminals \cup f.nonterminals
    \cup UNION { f.groups[n].tokens : n \in 1..Len(f.groups) }
    \cup { f.lines[n].lhs : n \in 1..Len(f.lines) }

\* from_file was called and has ended
Loaded == gfile # NoFile /\ pc # "load"

\* nothing was built: no Grammar object returned, no FirstFollow, no table,
\* no automaton
NothingBuilt ==
    /\ pc = "raised"
    /\ g = EmptyGrammar
    /\ first = EmptyDict /\ follow = EmptyDict
    /\ table = EmptyDict
    /\ automaton = NoAut
    /\ \A k \in Kinds : parser[k] = NoParser

\* C25: building a grammar fails with a grammar error when the start symbol
\* is undefined, and also when a right-hand side references a symbol that
\* is neither a declared terminal nor a declared nonterminal; nothing is
\* built from such a grammar.
C25_GrammarValidation ==
    (Loaded /\ (gfile.start = "" \/ FileRhsSymbols(gfile) \ FileDeclared(gfile) # {}))
        => NothingBuilt

\* the first half of C25: without a start symbol from_file raises and
\* nothing is built
C25_StartSymbolRequired ==
    (Loaded /\ gfile.start = "") => NothingBuilt

\* the second half of C25 as the code has it: an undeclared right-hand-side
\* symbol is taken for a terminal and the grammar is built
C25_UndeclaredTakenAsTerminal ==
    (Loaded /\ gfile.start # "") =>
        /\ pc # "raised"
        /\ FileRhsSymbols(gfile) \ FileDeclared(gfile) \subseteq g.terminals

\* an SLR1Parser or LR1Parser object was constructed for g
ParserConstructed == automaton # NoAut \/ \E k \in Kinds : TablesBuilt(k)

\* the alternatives of A as __init__ copies them, lines 346 and 645
NormAlts(gr, A) ==
    { norm(q[2]) : q \in { x \in ProdSet(gr) : x[1] = A } }

\* C26: the name chosen for the augmented start symbol by SLR1Parser and
\* LR1Parser is no nonterminal of the grammar, and every nonterminal of the
\* grammar keeps exactly its own productions in the augmented grammar.
C26_AugStartFresh ==
    ParserConstructed =>
        /\ ParserOf(g).aug_start \notin g.nonterminals
        /\ \A A \in g.nonterminals : ProdsOf(ParserOf(g), A) = NormAlts(g, A)

\* C26 on the grammars in which the two candidate names are not both taken
C26_FreshUnlessBothTaken ==
    (ParserConstructed
        /\ ~({g.start_symbol \o "'", g.start_symbol \o "_S"} \subseteq g.nonterminals))
        => /\ ParserOf(g).aug_start \notin g.nonterminals
           /\ \A A \in g.nonterminals : ProdsOf(ParserOf(g), A) = NormAlts(g, A)

----------------------------------------------------------------------------
(* The automata *)

\* no two positions of the list hold equal item sets
NoDuplicates(states) ==
    \A m, n \in 1..Len(states) : m # n => states[m] # states[n]

\* no two positions of the list hold item sets with the same core
NoDuplicateCores(states) ==
    \A m, n \in 1..Len(states) : m # n => Core(states[m]) # Core(states[n])

\* the worklist loop of _build_lr0_automaton is running or has just ended
InLR0Build == pc \in {"lr0", "slr_tab"}

\* the worklist loop of _build_lr1_automaton is running or has just ended
InLR1Build == pc \in {"lr1", "lr1_tab", "lalr_merge"}

\* C28: at every point of the worklist construction and in the finished
\* automaton of SLR1Parser and of LR1Parser in both modes, no two state
\* indices hold equal item sets (for LALR(1): no two states have the same
\* core); every transition recorded so far leads to the state that equals
\* the goto result, so a goto result equal to an existing state got that
\* state's index and was not appended.
C28_NoDuplicateStates ==
    /\ NoDuplicates(automaton.states)
    /\ \A k \in Kinds : NoDuplicates(parser[k].states)
    /\ NoDuplicateCores(parser["lalr1"].states)
    /\ \A idx \in 1..Len(automaton.worklist) :
            automaton.worklist[idx] < Len(automaton.states)
    /\ InLR0Build =>
        \A key \in DOMAIN automaton.transitions :
            automaton.states[automaton.transitions[key] + 1]
                = goto(ParserOf(g), automaton.states[key[1] + 1], key[2])
    /\ InLR1Build =>
        \A key \in DOMAIN automaton.transitions :
            automaton.states[automaton.transitions[key] + 1]
                = goto_lr1(ParserOf(g), first, automaton.states[key[1] + 1], key[2])

\* all three automata are finished, each with a state that two different
\* transitions lead to, and the LALR(1) one has fewer states than the
\* canonical one
C28_Witness ==
    /\ \A k \in Kinds :
        /\ TablesBuilt(k)
        /\ \E c, d \in DOMAIN parser[k].transitions :
            c # d /\ parser[k].transitions[c] = parser[k].transitions[d]
    /\ Len(parser["lalr1"].states) < Len(parser["lr1"].states)

\* the canonical states that share the core of merged state m
SameCore(m) ==
    { n \in 1..Len(parser["lr1"].states) :
        Core(parser["lr1"].states[n]) = Core(parser["lalr1"].states[m]) }

\* the merged states that canonical state n went into: same core, and all
\* items of n among its items
MergedOf(n) ==
    { m \in 1..Len(parser["lalr1"].states) :
        /\ n \in SameCore(m)
        /\ parser["lr1"].states[n] \subseteq parser["lalr1"].states[m] }

\* transitions as triples of positions in the list of states
Triples(trans) == { <<key[1] + 1, key[2], trans[key] + 1>> : key \in DOMAIN trans }

\* C29: in mode lalr1 every state is the union of the item sets of all
\* canonical LR(1) states that share its core; every canonical state is
\* part of exactly one merged state; every canonical transition
\* (i, X) -> j appears as (merged(i), X) -> merged(j), and there are no
\* other transitions.
C29_LALRMerging ==
    (TablesBuilt("lr1") /\ TablesBuilt("lalr1")) =>
        /\ \A m \in 1..Len(parser["lalr1"].states) :
            /\ SameCore(m) # {}
            /\ parser["lalr1"].states[m]
                    = UNION { parser["lr1"].states[n] : n \in SameCore(m) }
        /\ \A n \in 1..Len(parser["lr1"].states) : Cardinality(MergedOf(n)) = 1
        /\ Triples(parser["lalr1"].transitions)
                = { <<CHOOSE m \in MergedOf(t[1]) : TRUE, t[2],
                      CHOOSE m \in MergedOf(t[3]) : TRUE>> :
                    t \in Triples(parser["lr1"].transitions) }

\* a merged state that is larger than each of the two or more canonical
\* states it was made of, with a transition leading into it
C29_Witness ==
    /\ TablesBuilt("lr1") /\ TablesBuilt("lalr1")
    /\ \E m \in 1..Len(parser["lalr1"].states) :
        /\ Cardinality(SameCore(m)) >= 2
        /\ \A n \in SameCore(m) :
                parser["lr1"].states[n] # parser["lalr1"].states[m]
        /\ \E t \in Triples(parser["lalr1"].transitions) : t[3] = m

----------------------------------------------------------------------------
(* The parse loops *)

\* the parse of kind k is about to execute the Accept action
AtAcceptCell(k) ==
    /\ pc = "parse_" \o k
    /\ run.running
    /\ run.input_stream # <<>>
    /\ Has(parser[k].Action, CurrentCell)
    /\ parser[k].Action[CurrentCell] = Accept

\* one node on the node stack, labelled with the start symbol, and the
\* state stack [0, goto(0, start)]
SingleRoot(k) ==
    /\ Len(run.node_stack) = 1
    /\ run.nodes[run.node_stack[1]].symbol = g.start_symbol
    /\ Has(parser[k].GOTO, <<0, g.start_symbol>>)
    /\ run.states = <<0, parser[k].GOTO[<<0, g.start_symbol>>]>>

\* the step taken at the Accept cell returns that node with ok = true
ReturnsRoot(k) ==
    AtAcceptCell(k) =>
        /\ Has(results', k)
        /\ results'[k].ok
        /\ results'[k].tree = run.node_stack[Len(run.node_stack)]
        /\ results'[k].nodes = run.nodes

\* C21: whenever SLR1Parser.parse or LR1Parser.parse executes the Accept
\* action, the node stack holds exactly one node, labelled with the start
\* symbol, the state stack is [0, goto(0, start)], and that node is returned
\* as ParseResult.tree with ok = true.
C21_AcceptSingleRoot ==
    /\ [](\A k \in Kinds : AtAcceptCell(k) => SingleRoot(k))
    /\ [][\A k \in Kinds : ReturnsRoot(k)]_vars

\* C21 on the grammars for which the name of the augmented start is fresh
C21_SingleRootWhenAugFresh ==
    /\ [](\A k \in Kinds :
            (AtAcceptCell(k) /\ aug_start(g) \notin g.nonterminals) => SingleRoot(k))
    /\ [][\A k \in Kinds : ReturnsRoot(k)]_vars

\* the positions of the nonterminals in a sentential form
NTPositions(gr, form) == { i \in 1..Len(form) : form[i] \in gr.nonterminals }

\* the sentential form with the nonterminal at position i rewritten by alpha
Rewrite(form, i, alpha) ==
    SubSeq(form, 1, i - 1) \o RhsSyms(alpha) \o SubSeq(form, i + 1, Len(form))

\* The sentential forms (none or one) reached from form by applying the
\* productions of derivs in order, each to the leftmost nonterminal
\* (leftmost = TRUE) or to the rightmost one.  No form is reached when a
\* production does not fit the nonterminal it is applied to.
RECURSIVE Replay(_, _, _, _)
Replay(gr, form, derivs, leftmost) ==
    IF derivs = <<>> THEN {form}
    ELSE LET P == NTPositions(gr, form)
             i == IF leftmost THEN CHOOSE x \in P : \A y \in P : x <= y
                  ELSE CHOOSE x \in P : \A y \in P : x >= y
         IN  IF P = {} THEN {}
             ELSE IF form[i] # Head(derivs)[1] THEN {}
             ELSE Replay(gr, Rewrite(form, i, Head(derivs)[2]), Tail(derivs),
                         leftmost)

\* a parse of kind k has returned with ok = true
Accepted(k) == Has(results, k) /\ ~results[k].raised /\ results[k].ok

\* the recorded derivations of the parse of kind k spell out the input
DerivesInput(k) ==
    IF k = "ll1"
    THEN Replay(g, <<g.start_symbol>>, results[k].derivations, TRUE) = {tokens}
    ELSE Replay(g, <<g.start_symbol>>, Reverse(results[k].derivations), FALSE)
            = {tokens}

\* C22: for every accepted LL(1) parse, applying ParseResult.derivations in
\* recorded order to the leftmost nonterminal, from the start symbol, gives
\* exactly the input token sequence; for every accepted shift-reduce parse,
\* applying them in reverse order to the rightmost nonterminal does.
C22_DerivationOrder ==
    \A k \in {"ll1"} \cup Kinds : Accepted(k) => DerivesInput(k)

\* the end marker occurs among the tokens or among the terminals
EndInPlay == END \in g.terminals \/ \E i \in 1..Len(tokens) : tokens[i] = END

\* C22 for inputs and grammars that keep the end marker to the parser, and
\* grammars whose augmented start name is fresh
C22_DerivationOrderWithoutEnd ==
    \A k \in {"ll1"} \cup Kinds :
        (Accepted(k) /\ ~EndInPlay /\ aug_start(g) \notin g.nonterminals)
            => DerivesInput(k)

\* the traces of the four rejecting branches
RejectTraces ==
    {"error: terminal mismatch", "error: no table entry", "error: no ACTION",
     "error: no GOTO after reduce"}

\* the parse of kind k returned a value, and a rejection has ok = false and
\* no tree (0 stands for None)
ReturnedValue(k) ==
    /\ ~results[k].raised
    /\ results[k].trace \in RejectTraces
            => (~results[k].ok /\ results[k].tree = 0)

\* C23: for every constructed parser of the four kinds and every token
\* sequence (the empty one and those with names foreign to the grammar
\* included), parse hands back a ParseResult and raises nothing; a terminal
\* mismatch, a missing LL(1) table entry, a missing ACTION entry and a
\* missing GOTO entry each give ok = false with tree = None.
C23_RejectionsAreValues ==
    /\ pc # "aborted"
    /\ \A k \in DOMAIN results : ReturnedValue(k)

\* C23 on the grammars that do not declare the end marker a terminal
C23_ValuesWhenEndReserved ==
    END \notin g.terminals =>
        /\ pc # "aborted"
        /\ \A k \in DOMAIN results : ReturnedValue(k)

\* the parse of kind k is about to execute a Reduce action
AtReduceCell(k) ==
    /\ pc = "parse_" \o k
    /\ run.running
    /\ run.input_stream # <<>>
    /\ Has(parser[k].Action, CurrentCell)
    /\ parser[k].Action[CurrentCell].kind = "r"

\* popping one state per symbol of the right side leaves a state, and GOTO
\* has an entry for that state and the left side
GotoAfterPop(k) ==
    LET prod == parser[k].Action[CurrentCell].prod
        n == Len(RhsSyms(prod[2]))
    IN  /\ Len(run.states) > n
        /\ Has(parser[k].GOTO, <<run.states[Len(run.states) - n], prod[1]>>)

\* C30: in a parse driven by the tables of SLR1Parser or LR1Parser (either
\* mode, with or without conflicts), whenever a Reduce(A -> alpha) is
\* executed the entry GOTO[(state exposed after popping |alpha| states, A)]
\* exists: the 'no GOTO after reduce' branch is never taken and the pop
\* never empties the state stack.
C30_GotoAfterReduce ==
    /\ \A k \in Kinds : AtReduceCell(k) => GotoAfterPop(k)
    /\ run.trace # "error: no GOTO after reduce"
    /\ \A k \in DOMAIN results : results[k].trace # "error: no GOTO after reduce"

\* the three shift-reduce parses have finished, each after reducing an
\* empty right side and one of two symbols
C30_Witness ==
    /\ pc = "done"
    /\ \A k \in Kinds :
        /\ Has(results, k)
        /\ \E i, j \in 1..Len(results[k].derivations) :
              /\ RhsSyms(results[k].derivations[i][2]) = <<>>
              /\ Len(RhsSyms(results[k].derivations[j][2])) = 2

\* what the constructors built
builtVars == <<g, first, follow, table, ll1_conflicts, automaton, parser>>

ParsePcs == {"parse_ll1"} \cup { "parse_" \o k : k \in Kinds }

\* the result of every engine in round i of the calls, for the tokens of the
\* present round, is the present result
SameAsRound(i) ==
    earlier[i].tokens = tokens =>
        \A k \in DOMAIN results \cap DOMAIN earlier[i].results :
            results[k] = earlier[i].results[k]

\* a step taken inside a parse call leaves what was built as it is
LeavesBuilt == pc \in ParsePcs => UNCHANGED builtVars

\* C24: every call of LL1Parser.parse, SLR1Parser.parse or LR1Parser.parse
\* leaves the grammar, the FIRST/FOLLOW sets, the LL(1) table, the automaton
\* states and transitions, ACTION, GOTO and the conflict list unchanged, so
\* that in any sequence of parses on the same parser objects each token
\* sequence gets the ParseResult it gets on the freshly built parsers.
C24_ParsingReadOnly ==
    /\ [](\A i \in 1..Len(earlier) : SameAsRound(i))
    /\ [][LeavesBuilt]_vars

\* the third round has finished on the tokens of the first one, after a
\* round on other tokens; a parse was accepted in one round and rejected in
\* another, on tables with entries
C24_Witness ==
    /\ pc = "done"
    /\ Len(earlier) = 2
    /\ earlier[1].tokens = tokens
    /\ earlier[2].tokens # tokens
    /\ \A k \in Kinds : Has(results, k) /\ results[k].ok
    /\ \E k \in Kinds : ~earlier[2].results[k].ok
    /\ \A k \in Kinds : DOMAIN parser[k].Action # {}

\* a parse call is in its loop
Running == run.running

\* the call has returned a ParseResult: Accepted (ok = true) or Rejected
Returned == ~run.running /\ pc # "aborted"

C27_EveryLoopEnds == Running ~> ~Running

\* the table that drives the active parse was built without a logged conflict
DrivenConflictFree ==
    /\ pc = "parse_ll1" => ll1_conflicts = <<>>
    /\ \A k \in Kinds : pc = "parse_" \o k => parser[k].conflicts = <<>>

\* C27 for the parses driven by a table without logged conflicts, on the
\* grammars that do not declare the end marker a terminal
C27_TerminatesWithoutConflicts ==
    (Running /\ DrivenConflictFree /\ END \notin g.terminals) ~> Returned

----------------------------------------------------------------------------
(* The steps of the shift-reduce loop *)

\* the parse of kind k is about to execute a Shift action
AtShiftCell(k) ==
    /\ pc = "parse_" \o k
    /\ run.running
    /\ run.input_stream # <<>>
    /\ Has(parser[k].Action, CurrentCell)
    /\ parser[k].Action[CurrentCell].kind = "s"

\* seq without its last n entries, for n <= Len(seq)
Below(seq, n) == SubSeq(seq, 1, Len(seq) - n)

\* the last n entries of seq, for n <= Len(seq)
Topmost(seq, n) == SubSeq(seq, Len(seq) - n + 1, Len(seq))

\* the nodes made so far stay as they are
KeepsNodes ==
    /\ Len(run'.nodes) >= Len(run.nodes)
    /\ \A i \in 1..Len(run.nodes) : run'.nodes[i] = run.nodes[i]

\* the effect of Reduce(A -> alpha) on the locals of the parse of kind k
ReduceEffect(k) ==
    LET prod == parser[k].Action[CurrentCell].prod
        n == Len(RhsSyms(prod[2]))
        top == run'.nodes[Last(run'.node_stack)]
    IN  /\ n <= Len(run.symbols) /\ n <= Len(run.node_stack) /\ n < Len(run.states)
        /\ run'.symbols = Append(Below(run.symbols, n), prod[1])
        /\ run'.states =
              Append(Below(run.states, n),
                     parser[k].GOTO[<<Last(Below(run.states, n)), prod[1]>>])
        /\ Below(run'.node_stack, 1) = Below(run.node_stack, n)
        /\ Last(run'.node_stack) > Len(run.nodes)
        /\ top.symbol = prod[1]
        /\ IF n > 0
           THEN top.children = Topmost(run.node_stack, n)
           ELSE /\ Len(top.children) = 1
                /\ top.children[1] > Len(run.nodes)
                /\ run'.nodes[top.children[1]] = Node(EPS, <<>>)
        /\ KeepsNodes
        /\ run'.steps = Append(run.steps, prod)
        /\ run'.input_stream = run.input_stream

\* the effect of Shift(j) on the locals of the parse of kind k
ShiftEffect(k) ==
    LET a == Head(run.input_stream)
        j == parser[k].Action[CurrentCell].j
    IN  /\ run'.symbols = Append(run.symbols, a)
        /\ run'.states = Append(run.states, j)
        /\ Below(run'.node_stack, 1) = run.node_stack
        /\ Last(run'.node_stack) > Len(run.nodes)
        /\ run'.nodes[Last(run'.node_stack)] = Node(a, <<>>)
        /\ KeepsNodes
        /\ run'.steps = run.steps
        /\ run'.input_stream = Tail(run.input_stream)

\* C31: executing Reduce(A -> alpha) removes exactly |alpha| entries (0 for
\* an empty right side) from the state, symbol and node stacks, pushes A, a
\* node labelled A whose children are the removed nodes in their order (or
\* one eps leaf) and the state GOTO[(exposed state, A)], appends (A, alpha)
\* to the derivations and consumes no token; Shift(j) pushes the lookahead,
\* a childless leaf and state j and consumes exactly one token.
C31_ReduceAndShiftStep ==
    [][\A k \in Kinds : /\ AtReduceCell(k) => ReduceEffect(k)
                        /\ AtShiftCell(k) => ShiftEffect(k)]_vars

\* a parse of a b a on S -> a S a | b has ended: its root has the three
\* popped nodes as children, in the order they were shifted and reduced
C31_Witness ==
    /\ pc = "done"
    /\ \A k \in Kinds :
        /\ Has(results, k) /\ results[k].ok
        /\ Len(results[k].nodes[results[k].tree].children) = 3
        /\ Len(results[k].derivations) = 2

----------------------------------------------------------------------------
(* The closures *)

\* the symbols after the one behind the dot of an LR(1) item, then its
\* lookahead
BetaLa(it) == SubSeq(it[2], it[3] + 2, Len(it[2])) \o <<it[4]>>

\* the items (B -> . gamma, b) that the item (A -> alpha . B beta, a) asks
\* for: every production of B, every b in FIRST(beta a) by derivation
Demands(ps, it) ==
    IF DotAtEnd(it) THEN {}
    ELSE IF AfterDot(it) \notin ps.nonterminals THEN {}
    ELSE { <<AfterDot(it), gamma, 0, b>> :
            gamma \in ProdsOf(ps, AfterDot(it)),
            b \in RefFirstSeq(ref.first, BetaLa(it)) }

\* the least set that holds T and what its items ask for
RECURSIVE LeastClosed(_, _)
LeastClosed(ps, T) ==
    LET T2 == T \cup UNION { Demands(ps, it) : it \in T }
    IN  IF T2 = T THEN T ELSE LeastClosed(ps, T2)

\* the items _closure_lr1 was called with to get the state I: the start item
\* or the items goto moved the dot of
GivenItems(ps, I) == { it \in I : it[3] > 0 \/ it[1] = ps.aug_start }

\* the LR(1) states built so far
LR1States ==
    IF InLR1Build THEN automaton.states ELSE parser["lr1"].states

\* C32: _closure_lr1(I) is the least superset of I that holds, for each of
\* its items (A -> alpha . B beta, a) with B a nonterminal, every production
\* gamma of B and every terminal b in FIRST(beta a), the item
\* (B -> . gamma, b); every lookahead of every item in every state is a
\* terminal or $, never eps; closing a closed set adds nothing.
C32_LR1Closure ==
    \A n \in 1..Len(LR1States) :
        LET I == LR1States[n]
            ps == ParserOf(g)
        IN  /\ I = LeastClosed(ps, GivenItems(ps, I))
            /\ \A it \in I : it[4] \in g.terminals \cup {END}
            /\ closure_lr1(ps, first, I) = I

\* the finished canonical automaton of S -> A A ; A -> a | eps: the items
\* of A in state 0 have the lookaheads a (first of the second A) and $
\* (the second A derives the empty string)
C32_Witness ==
    /\ TablesBuilt("lr1")
    /\ g = G_pair
    /\ {<<"A", <<>>, 0, "a">>, <<"A", <<>>, 0, END>>} \subseteq parser["lr1"].states[1]
    /\ \E n \in 1..Len(parser["lr1"].states) :
            <<"A", <<>>, 0, END>> \in parser["lr1"].states[n]
            /\ <<"A", <<>>, 0, "a">> \notin parser["lr1"].states[n]

----------------------------------------------------------------------------
(* The loops of FirstFollow.compute *)

\* no first[X] and no follow[A] loses an element in the step
SetsGrow ==
    /\ \A X \in DOMAIN first : first[X] \subseteq first'[X]
    /\ \A A \in DOMAIN follow : follow[A] \subseteq follow'[A]

\* a pass over all productions from these FIRST sets changes none of them
FirstSettled(fst) ==
    \A k \in 1..Len(ProdList(g)) :
        FirstStep(fst, ProdList(g)[k][1], ProdList(g)[k][2]) = fst

\* a pass over all productions from these FOLLOW sets changes none of them
FollowSettled(fol) ==
    \A k \in 1..Len(ProdList(g)) :
        \A i \in 1..Len(ProdList(g)[k][2]) :
            FollowStep(g, first, fol, ProdList(g)[k][1], ProdList(g)[k][2], i) = fol

\* a loop is left only by a pass that changed nothing
ExitsWhenSettled ==
    /\ (pc = "first" /\ pc' # "first") =>
            (first' = first /\ FirstSettled(first))
    /\ (pc = "follow" /\ pc' # "follow") =>
            (follow' = follow /\ FollowSettled(follow))

\* C33: during FirstFollow.compute every first[X] and follow[A] only ever
\* grows, each of the two loops terminates, and a loop exits only after a
\* full pass over all productions in which no set changed.
C33_MonotoneFixedPoint ==
    /\ [][SetsGrow /\ ExitsWhenSettled]_vars
    /\ (pc = "first") ~> (pc = "seed")
    /\ (pc = "follow") ~> (pc = "ff")

\* compute() has returned after FOLLOW passes that changed sets, with a
\* follow set of two elements and an inherited one
C33_Witness ==
    /\ pc = "ff"
    /\ computes = 1
    /\ \E A \in DOMAIN follow : Cardinality(follow[A]) >= 2
    /\ \E A \in DOMAIN first : EPS \in first[A] /\ Cardinality(first[A]) >= 2
    /\ ~FollowSettled(SeedFollow(g, InitFollow(g)))

----------------------------------------------------------------------------
(* The LL(1) loop *)

\* LL1Parser.parse is at the head of a loop iteration
InLL1Loop == pc = "parse_ll1" /\ run.running

\* both stacks have one length, and every node on the node stack carries the
\* symbol at its position (0 stands for None)
LL1StacksAligned ==
    /\ Len(run.stack) = Len(run.node_stack)
    /\ \A i \in 1..Len(run.stack) :
            run.node_stack[i] # 0 =>
                run.nodes[run.node_stack[i]].symbol = run.stack[i]

LL1Top == Last(run.stack)
LL1Look == Head(run.input_stream)

LL1AtAccept == InLL1Loop /\ LL1Top = END /\ LL1Look = END

LL1AtMatch ==
    /\ InLL1Loop /\ ~LL1AtAccept
    /\ LL1Top \in g.terminals \cup {END}
    /\ LL1Top = LL1Look

LL1AtExpand ==
    /\ InLL1Loop /\ ~LL1AtAccept
    /\ LL1Top \notin g.terminals \cup {END}
    /\ Has(table, <<LL1Top, LL1Look>>)

\* the labels of the children of node n after the step
ChildLabels(n) ==
    [i \in 1..Len(run'.nodes[n].children) |->
        run'.nodes[run'.nodes[n].children[i]].symbol]

\* expanding A by X1..Xn: A leaves the stack, X1..Xn come in reverse with
\* X1 on top (nothing for the empty alternative), A's node gets the
\* children X1..Xn in order
LL1ExpandEffect ==
    LET entry == table[<<LL1Top, LL1Look>>]
        n == Len(RhsSyms(entry))
        A == Last(run.node_stack)
    IN  /\ run'.stack = Below(run.stack, 1) \o Reverse(RhsSyms(entry))
        /\ n > 0 => Last(run'.stack) = entry[1]
        /\ A # 0
        /\ run.nodes[A].children = <<>>
        /\ ChildLabels(A) = entry
        /\ \A i \in 1..Len(entry) : run'.nodes[A].children[i] > Len(run.nodes)
        /\ run'.node_stack =
              Below(run.node_stack, 1)
              \o (IF n > 0 THEN Reverse(run'.nodes[A].children) ELSE <<>>)
        /\ run'.steps = Append(run.steps, <<LL1Top, entry>>)
        /\ run'.input_stream = run.input_stream

\* a match pops one stack symbol, its node and one token
LL1MatchEffect ==
    /\ run'.stack = Below(run.stack, 1)
    /\ run'.node_stack = Below(run.node_stack, 1)
    /\ run'.input_stream = Tail(run.input_stream)
    /\ run'.nodes = run.nodes
    /\ run'.steps = run.steps

\* the iteration that ends the parse accepts exactly at $ against $
LL1AcceptExactly ==
    (InLL1Loop /\ Has(results', "ll1")) =>
        /\ (results'["ll1"].trace = "accept") = (LL1Top = END /\ LL1Look = END)
        /\ results'["ll1"].ok = (results'["ll1"].trace = "accept")

\* C34: at every iteration of LL1Parser.parse the symbol stack and the node
\* stack have equal length and each node that is not None is labelled with
\* the symbol at its position; expanding A by the table entry X1..Xn puts
\* X1 on top and gives A's node the children X1..Xn in order; a match pops
\* one stack symbol and one input token; accept happens exactly when the
\* stack top and the lookahead are both $.
C34_LL1StackDiscipline ==
    /\ [](InLL1Loop => LL1StacksAligned)
    /\ [][/\ LL1AtExpand => LL1ExpandEffect
          /\ LL1AtMatch => LL1MatchEffect
          /\ LL1AtAccept => (Has(results', "ll1") /\ results'["ll1"].ok)
          /\ LL1AcceptExactly]_vars

\* the LL(1) parse of a b a on S -> a S a | b was accepted: two expansions,
\* three matches
C34_Witness ==
    /\ g = G_nest
    /\ tokens = <<"a", "b", "a">>
    /\ Has(results, "ll1")
    /\ results["ll1"].ok
    /\ Len(results["ll1"].derivations) = 2

\* the three stacks of the parse of kind k describe one path of its
\* automaton from state 0
SRStacksConsistent(k) ==
    /\ Len(run.states) = Len(run.symbols) + 1
    /\ Len(run.states) = Len(run.node_stack) + 1
    /\ run.states[1] = 0
    /\ \A i \in 1..Len(run.symbols) :
        /\ run.nodes[run.node_stack[i]].symbol = run.symbols[i]
        /\ Has(parser[k].transitions, <<run.states[i], run.symbols[i]>>)
        /\ run.states[i + 1] = parser[k].transitions[<<run.states[i], run.symbols[i]>>]

\* C35: at every iteration of SLR1Parser.parse and LR1Parser.parse,
\* len(states) = len(symbols) + 1 = len(node_stack) + 1, states[0] = 0,
\* node_stack[k].symbol = symbols[k] for all k, and the state stack is the
\* path of the automaton spelled by the symbol stack:
\* states[k+1] = transitions[(states[k], symbols[k])].
C35_SRStackConsistency ==
    \A k \in Kinds : (pc = "parse_" \o k /\ run.running) => SRStacksConsistent(k)

\* a parse of kind lalr1 is in its loop with four states on the stack, after
\* a reduce, on the automaton whose states were merged
C35_Witness ==
    /\ pc = "parse_lalr1"
    /\ run.running
    /\ Len(run.states) >= 4
    /\ run.steps # <<>>
    /\ Len(parser["lalr1"].states) < Len(parser["lr1"].states)

----------------------------------------------------------------------------
(* The parse tree *)

\* node n has children, and their labels are a right-hand side of its label
IsProduction(nodes, n) ==
    <<nodes[n].symbol,
      [i \in 1..Len(nodes[n].children) |-> nodes[nodes[n].children[i]].symbol]>>
        \in ProdSet(g)

\* the tree of the accepted parse of kind k reads as the input, and each of
\* its inner nodes is a production
TreeOfInput(k) ==
    LET nodes == results[k].nodes
        root == results[k].tree
    IN  /\ root # 0
        /\ Yield(nodes, root) = tokens
        /\ \A n \in Subtree(nodes, root) :
                nodes[n].children # <<>> => IsProduction(nodes, n)

\* C36: for every accepted parse of any of the four engines, the leaves of
\* ParseResult.tree read left to right, eps leaves removed, are exactly the
\* input token sequence, and every inner node labelled A has children whose
\* labels form the right-hand side of a production of A.
C36_TreeYield ==
    \A k \in {"ll1"} \cup Kinds : Accepted(k) => TreeOfInput(k)

\* C36 for inputs and grammars that keep the end marker to the parser, and
\* grammars whose augmented start name is fresh
C36_TreeYieldWithoutEnd ==
    \A k \in {"ll1"} \cup Kinds :
        (Accepted(k) /\ ~EndInPlay /\ aug_start(g) \notin g.nonterminals)
            => TreeOfInput(k)

----------------------------------------------------------------------------
(* The order of enumeration *)

\* the worklist loop of _build_lr0_automaton run to its end
RECURSIVE LR0Run(_, _)
LR0Run(ps, aut) ==
    IF aut.worklist = <<>> THEN aut ELSE LR0Run(ps, LR0Pop(ps, aut))

\* the worklist loop of _build_lr1_automaton run to its end
RECURSIVE LR1Run(_, _, _)
LR1Run(ps, fst, aut) ==
    IF aut.worklist = <<>> THEN aut ELSE LR1Run(ps, fst, LR1Pop(ps, fst, aut))

\* SLR1Parser(g, ff), LR1Parser(g, ff, mode='lr1') and
\* LR1Parser(g, ff, mode='lalr1') constructed from nothing, every set
\* enumerated in the order of the state the expression is evaluated in
Constructed(k) ==
    LET ps == ParserOf(g) IN
    IF k = "slr1"
    THEN build_slr1_tables(ps, g, follow, LR0Run(ps, LR0Start(ps, g)))
    ELSE IF k = "lr1"
    THEN build_lr1_tables(ps, g, LR1Run(ps, first, LR1Start(ps, g, first)))
    ELSE build_lr1_tables(ps, g,
            LALRMerge(LR1Run(ps, first, LR1Start(ps, g, first))))

\* a table entry of parser object p with the number of the target state
\* replaced by the state itself
EntryOf(p, act) ==
    IF act.kind = "s" THEN [kind |-> "s", target |-> p.states[act.j + 1]]
    ELSE act

\* ACTION and GOTO of parser object p with every state number replaced by
\* the item set it numbers: what is left of the tables under a renumbering
TablesByItems(p) ==
    [start |-> p.states[1],
     action |-> { <<p.states[c[1] + 1], c[2], EntryOf(p, p.Action[c])>> :
                    c \in DOMAIN p.Action },
     goto |-> { <<p.states[c[1] + 1], c[2], p.states[p.GOTO[c] + 1]>> :
                    c \in DOMAIN p.GOTO }]

\* the constructions are over and the order of enumeration was picked anew
\* since SLR1Parser and the canonical automaton were built
AfterRechoice == pc \in {"lalr_tab", "ready"}

\* the parser object of kind k that was built, and the one constructed from
\* nothing under the order of now, have the same tables
SameTablesAsBuilt(k) ==
    TablesByItems(Constructed(k)) = TablesByItems(parser[k])

\* C37: for a fixed grammar, the ACTION and GOTO tables of SLR1Parser and
\* LR1Parser, up to a renumbering of states that fixes state 0, do not
\* depend on the order in which the items of a state and the outgoing
\* symbols of a state are enumerated, cells with an unresolved conflict
\* included.
C37_OrderIndependent ==
    \A k \in Kinds : (AfterRechoice /\ TablesBuilt(k)) => SameTablesAsBuilt(k)

\* every conflict that construction logged, under either order, was
\* resolved by precedence
AllResolvedIn(p) == \A n \in 1..Len(p.conflicts) : p.conflicts[n].resolved

\* C37 for the grammars whose conflicts are all resolved by precedence
C37_OrderIndependentWhenResolved ==
    \A k \in Kinds :
        (/\ AfterRechoice /\ TablesBuilt(k)
         /\ AllResolvedIn(parser[k]) /\ AllResolvedIn(Constructed(k)))
            => SameTablesAsBuilt(k)

----------------------------------------------------------------------------
(* Shift before reduce *)

\* a shift and a reduce are proposed for cell c, and neither the lookahead
\* nor the production of one of the reduces has a precedence
ShiftReduceWithoutPrec(k, c) ==
    /\ ShiftCands(k, c) # {}
    /\ ~TermPrecDefined(c[2])
    /\ \E r \in ReduceCands(k, c) : ~ProdPrecDefined(r.prod)

\* in every logged conflict between a shift and a reduce the shift was in
\* the cell and the reduce came second
ShiftsComeFirst(k) ==
    \A n \in 1..Len(parser[k].conflicts) :
        IsShiftReduce(parser[k].conflicts[n]) =>
            /\ parser[k].conflicts[n].prev.kind = "s"
            /\ parser[k].conflicts[n].new.kind = "r"

\* C38: within each state all shifts are registered before any reduce or
\* accept, and in every cell where a shift and a reduce compete and neither
\* the lookahead nor the production has a precedence, the action kept in
\* the finished ACTION table is the shift.
C38_UnresolvedKeepsShift ==
    \A k \in Kinds : TablesBuilt(k) =>
        /\ ShiftsComeFirst(k)
        /\ \A c \in DOMAIN parser[k].Action :
            ShiftReduceWithoutPrec(k, c) =>
                /\ parser[k].Action[c] \in ShiftCands(k, c)
                /\ \A m \in 1..Len(CellLog(k, c)) : ~CellLog(k, c)[m].resolved

\* all three tables are built, and each has a cell where a shift and a
\* reduce without precedence were proposed and the conflict was logged
C38_Witness ==
    /\ pc = "ready"
    /\ \A k \in Kinds :
        \E c \in DOMAIN parser[k].Action :
            /\ ShiftReduceWithoutPrec(k, c)
            /\ \E m \in 1..Len(CellLog(k, c)) : IsShiftReduce(CellLog(k, c)[m])

----------------------------------------------------------------------------
(* LALR(1) cores and LR(0) item sets *)

\* the set of the item sets of a list of states
StateSet(states) == { states[n] : n \in 1..Len(states) }

\* the cores of the states of LR1Parser(mode='lalr1')
LALRCores == { Core(I) : I \in StateSet(parser["lalr1"].states) }

\* the canonical transitions, each with the merged index of its source
\* state, its symbol and the merged index of its target state
Reindexed ==
    LET idx_map == IdxMap(parser["lr1"].states) IN
    { <<idx_map[k[1] + 1], k[2], idx_map[parser["lr1"].transitions[k] + 1]>> :
        k \in DOMAIN parser["lr1"].transitions }

\* C39: the set of cores of the states built by LR1Parser(mode='lalr1')
\* equals the set of LR(0) item sets built by SLR1Parser, with the same
\* number of states; merged state 0 contains the augmented start item; and
\* no two canonical transitions are mapped to the same (merged state,
\* symbol) key with different merged targets.
C39_LALRCoresAreLR0 ==
    (\A k \in Kinds : TablesBuilt(k)) =>
        /\ LALRCores = StateSet(parser["slr1"].states)
        /\ Len(parser["lalr1"].states) = Len(parser["slr1"].states)
        /\ <<aug_start(g), <<g.start_symbol>>, 0, END>> \in parser["lalr1"].states[1]
        /\ \A t, u \in Reindexed : (t[1] = u[1] /\ t[2] = u[2]) => t[3] = u[3]

\* FIRST of every nonterminal of the grammar holds a terminal or eps
NoEmptyFirst == \A A \in g.nonterminals : first[A] # {}

\* C39 for the grammars in which no nonterminal has an empty FIRST set; for
\* the others the cores are LR(0) item sets with items left out, and the
\* other two parts hold all the same
C39_CoresAreLR0WhenFirstNonEmpty ==
    (\A k \in Kinds : TablesBuilt(k)) =>
        /\ NoEmptyFirst =>
            /\ LALRCores = StateSet(parser["slr1"].states)
            /\ Len(parser["lalr1"].states) = Len(parser["slr1"].states)
        /\ \A C \in LALRCores :
                \E I \in StateSet(parser["slr1"].states) : C \subseteq I
        /\ <<aug_start(g), <<g.start_symbol>>, 0, END>> \in parser["lalr1"].states[1]
        /\ \A t, u \in Reindexed : (t[1] = u[1] /\ t[2] = u[2]) => t[3] = u[3]

\* all three tables are built on a grammar without empty FIRST sets,
\* canonical states were merged, and two canonical transitions share their
\* merged source and symbol
C39_Witness ==
    /\ \A k \in Kinds : TablesBuilt(k)
    /\ NoEmptyFirst
    /\ Len(parser["lalr1"].states) < Len(parser["lr1"].states)
    /\ \E k1, k2 \in DOMAIN parser["lr1"].transitions :
        LET idx_map == IdxMap(parser["lr1"].states) IN
        /\ k1 # k2
        /\ k1[2] = k2[2]
        /\ idx_map[k1[1] + 1] = idx_map[k2[1] + 1]

----------------------------------------------------------------------------
(* The finished automaton *)

\* the states that transitions lead to from the states of R, R included
RECURSIVE ReachableFrom(_, _)
ReachableFrom(trans, R) ==
    LET more == { trans[key] : key \in { x \in DOMAIN trans : x[1] \in R } }
    IN  IF more \subseteq R THEN R ELSE ReachableFrom(trans, R \cup more)

\* the closure of the augmented start item, and _goto or _goto_lr1 of item
\* set I on X, for the parser of kind k
StartClosure(k) ==
    IF k = "slr1"
    THEN closure(ParserOf(g), { <<aug_start(g), <<g.start_symbol>>, 0>> })
    ELSE closure_lr1(ParserOf(g), first,
                     { <<aug_start(g), <<g.start_symbol>>, 0, END>> })

GotoOfKind(k, I, X) ==
    IF k = "slr1" THEN goto(ParserOf(g), I, X)
    ELSE goto_lr1(ParserOf(g), first, I, X)

\* the symbols right after a dot in state i
SymbolsAfterDot(k, i) ==
    { AfterDot(it) : it \in { x \in parser[k].states[i + 1] : ~DotAtEnd(x) } }

ClosedUnderGoto(k) ==
    /\ parser[k].states[1] = StartClosure(k)
    /\ ReachableFrom(parser[k].transitions, {0}) = StateIds(k)
    /\ DOMAIN parser[k].transitions
            = { c \in StateIds(k) \X UNION { SymbolsAfterDot(k, j) : j \in StateIds(k) } :
                    c[2] \in SymbolsAfterDot(k, c[1]) }
    /\ \A c \in DOMAIN parser[k].transitions :
        /\ parser[k].transitions[c] \in StateIds(k)
        /\ parser[k].states[parser[k].transitions[c] + 1]
                = GotoOfKind(k, parser[k].states[c[1] + 1], c[2])
    /\ DOMAIN parser[k].GOTO
            = { c \in DOMAIN parser[k].transitions :
                    c[2] \in ParserOf(g).nonterminals }
    /\ \A c \in DOMAIN parser[k].GOTO : parser[k].GOTO[c] = parser[k].transitions[c]

\* C40: in the finished automaton of SLR1Parser and LR1Parser(mode='lr1'),
\* state 0 is the closure of the augmented start item, every state is
\* reachable from state 0, transitions[(i, X)] is defined if and only if
\* some item of state i has its dot immediately before X, and then
\* states[transitions[(i, X)]] equals goto(states[i], X); GOTO is exactly
\* the restriction of transitions to nonterminals.
C40_ClosedUnderGoto ==
    \A k \in {"slr1", "lr1"} : TablesBuilt(k) => ClosedUnderGoto(k)

\* both automata are finished, each with a transition back into an earlier
\* state and a state two or more transitions away from state 0
C40_Witness ==
    \A k \in {"slr1", "lr1"} :
        /\ TablesBuilt(k)
        /\ \E c \in DOMAIN parser[k].transitions : parser[k].transitions[c] <= c[1]
        /\ \E i \in StateIds(k) :
                \A c \in DOMAIN parser[k].transitions :
                    parser[k].transitions[c] = i => c[1] # 0

====
